---- MODULE Spec2Model ----
(***************************************************************************)
(* State-machine model of the Opening-Range-Breakout trading engines of    *)
(* the repository: EnhancedORBStockTradingBot (enhanced_orb_stock_bot.py)  *)
(* and ORBStockTradingBot (orb_stock_bot.py).                              *)
(*                                                                         *)
(* Units.  Prices and money are integers in thousandths of a currency      *)
(* unit (105.05 is 105050).  Risk:reward ratios, size multipliers and      *)
(* volume ratios are integers in tenths (2.5 is 25).  Trend strength is    *)
(* in thousandths (0.02 is 20).                                            *)
(*                                                                         *)
(* One tick of run() is a sequence of steps, one per loop iteration of     *)
(* the code: TickStart, then one OpeningRangeStep per active symbol, one   *)
(* MonitorStep per open trade, one EntryStep per active symbol, one        *)
(* SweepStep per open trade, then Sleep.  Every fetch from the market-data *)
(* provider is an input chosen in the step that performs it.               *)
(***************************************************************************)
EXTENDS Integers, Sequences, FiniteSets, TLC

VARIABLES
    variant,                 \* "enhanced" or "legacy": which bot class runs
    slot,                    \* index of the current time-of-day class
    weekday,                 \* 0 = Monday .. 6 = Sunday
    day,                     \* calendar date, counted from process start
    clock,                   \* int(time.time()) abstracted to the tick count
    pc,                      \* position inside run()
    todo,                    \* rest of the loop being executed
    active_stocks,           \* local of run(): symbols in session this tick
    last_opening_range_calc, \* local of run(): date of last capture, or None
    opening_ranges,          \* self.opening_ranges
    active_trades,           \* self.active_trades, in insertion order
    trades_history,          \* self.trades_history
    daily_stats,             \* self.daily_stats
    saved,                   \* the three JSON documents on disk
    range_calls,             \* history: calls of calculate_opening_range
    last                     \* outcome of the step just executed

vars == <<variant, slot, weekday, day, clock, pc, todo, active_stocks,
          last_opening_range_calc, opening_ranges, active_trades,
          trades_history, daily_stats, saved, range_calls, last>>

(***************************************************************************)
(* Bounds of the model.                                                    *)
(***************************************************************************)
MaxTicks == 3

\* Python None where a record is expected
None == [none |-> TRUE]
\* last_opening_range_calc = None
NoDate == -1

(***************************************************************************)
(* Configuration (__init__ of both classes).                               *)
(***************************************************************************)
\* the first symbol of each list of the source; the lists are truncated
us_stocks == <<"AAPL">>
uk_stocks == <<"LLOY.L">>
all_stocks == us_stocks \o uk_stocks
supported_stocks == <<"AAPL">>

account_size == 50000
risk_per_trade_pct == 1
max_daily_loss_pct == 3
max_position_pct == 2
enhanced_max_trades_per_day == 5
legacy_max_trades_per_day == 3

\* the limit one too high: 'greater than' in place of 'at least'
max_trades_per_day_mut(v) ==
    IF v = "enhanced" THEN enhanced_max_trades_per_day + 1
    ELSE legacy_max_trades_per_day + 1

max_trades_per_day(v) ==
    IF v = "enhanced" THEN enhanced_max_trades_per_day
    ELSE legacy_max_trades_per_day

SeqToSet(s) == {s[i] : i \in DOMAIN s}

Abs(x) == IF x < 0 THEN -x ELSE x

\* int(a / b) of Python for b > 0: truncation toward zero
TruncDiv(a, b) == IF a >= 0 THEN a \div b ELSE -((-a) \div b)

(***************************************************************************)
(* Wall-clock time.  A tick reads the clock once.  The day is cut into     *)
(* classes on which every time predicate of the code is constant; each     *)
(* class is represented by one instant.  A tick falls into the class of    *)
(* the previous tick or into the next one.                                 *)
(***************************************************************************)
\* Dubai time, enhanced engine
EnhancedSlots == <<
    [hour |-> 10, minute |-> 0],     \* 02:00-11:59 no session
    [hour |-> 12, minute |-> 15],    \* 12:00-12:30 UK, UK capture window
    [hour |-> 13, minute |-> 0],     \* 12:31-17:59 UK
    [hour |-> 18, minute |-> 15],    \* 18:00-18:29 UK, US
    [hour |-> 18, minute |-> 45],    \* 18:30-19:00 UK, US, US capture window
    [hour |-> 19, minute |-> 30],    \* 19:01-20:30 UK, US
    [hour |-> 20, minute |-> 40],    \* 20:31-20:44 US
    [hour |-> 20, minute |-> 50],    \* 20:45-20:59 US, sweep
    [hour |-> 23, minute |-> 59],    \* 21:00-23:59 US
    [hour |-> 0,  minute |-> 30],    \* 00:00-00:59 US
    [hour |-> 1,  minute |-> 0],     \* 01:00       US, sweep
    [hour |-> 1,  minute |-> 30] >>  \* 01:01-01:59 US, sweep

\* US/Eastern time, legacy engine
LegacySlots == <<
    [hour |-> 9,  minute |-> 0],     \* 00:00-09:29 closed
    [hour |-> 9,  minute |-> 45],    \* 09:30-10:00 open, capture window
    [hour |-> 12, minute |-> 0],     \* 10:01-15:44 open
    [hour |-> 15, minute |-> 50],    \* 15:45-15:59 open, sweep
    [hour |-> 16, minute |-> 0],     \* 16:00       open
    [hour |-> 17, minute |-> 0] >>   \* 16:01-23:59 closed

Slots(v) == IF v = "enhanced" THEN EnhancedSlots ELSE LegacySlots

Now == Slots(variant)[slot]

MinuteOfDay(t) == t.hour * 60 + t.minute

\* a <= t <= b on one calendar day, as datetime comparison does
Between(t, ah, am, bh, bm) ==
    /\ ah * 60 + am <= MinuteOfDay(t)
    /\ MinuteOfDay(t) <= bh * 60 + bm

get_optimal_trading_sessions(t) ==
    [uk_session |-> Between(t, 12, 0, 20, 30),
     us_session |-> (t.hour >= 18 \/ t.hour <= 1)]

get_active_stocks_for_session(t) ==
    LET sessions == get_optimal_trading_sessions(t) IN
    IF sessions.uk_session /\ sessions.us_session THEN all_stocks
    ELSE IF sessions.uk_session THEN uk_stocks
    ELSE IF sessions.us_session THEN us_stocks
    ELSE << >>

enhanced_is_market_open(symbol, t) ==
    LET sessions == get_optimal_trading_sessions(t) IN
    IF symbol \in SeqToSet(uk_stocks) THEN sessions.uk_session
    ELSE IF symbol \in SeqToSet(us_stocks) THEN sessions.us_session
    ELSE FALSE

enhanced_is_opening_range_period(symbol, t) ==
    IF symbol \in SeqToSet(uk_stocks) THEN Between(t, 12, 0, 12, 30)
    ELSE Between(t, 18, 30, 19, 0)

legacy_is_market_open(t, wd) ==
    IF wd >= 5 THEN FALSE ELSE Between(t, 9, 30, 16, 0)

legacy_is_opening_range_period(t, wd) ==
    IF wd >= 5 THEN FALSE ELSE Between(t, 9, 30, 10, 0)

\* the end-of-session block never due
SweepTime_mut(v, t) == FALSE

\* run(): the condition of the forced end-of-session sweep
SweepTime(v, t) ==
    IF v = "enhanced"
    THEN (t.hour = 20 /\ t.minute >= 45) \/ (t.hour = 1 /\ t.minute >= 0)
    ELSE t.hour = 15 /\ t.minute >= 45

(***************************************************************************)
(* Market-data inputs.  A fetch returns None or the figures the code       *)
(* derives from the returned bars.                                         *)
(***************************************************************************)
\* opening bars of the day: [orh, orl, volume_avg], High >= Low in every
\* bar; each symbol trades at its own price level
RangeInputs(symbol) ==
    CASE symbol = "AAPL" ->
           { [orh |-> 105000,  orl |-> 100000,  volume_avg |-> 100],
             [orh |-> 1200000, orl |-> 1190000, volume_avg |-> 100] }
      [] symbol = "LLOY.L" ->
           { [orh |-> 105000,  orl |-> 100000,  volume_avg |-> 100],
             [orh |-> 600000,  orl |-> 590000,  volume_avg |-> 100] }

\* 5-minute bars: last value and mean of the rolling true-range average,
\* and |close - ema20| / ema20 in thousandths; empty: calculate_atr failed
MarketInputs ==
    { [empty |-> TRUE,  current_atr |-> 0,  avg_atr |-> 0,  trend_strength |-> 0],
      [empty |-> FALSE, current_atr |-> 16, avg_atr |-> 10, trend_strength |-> 25],
      [empty |-> FALSE, current_atr |-> 13, avg_atr |-> 10, trend_strength |-> 16],
      [empty |-> FALSE, current_atr |-> 10, avg_atr |-> 10, trend_strength |-> 0],
      [empty |-> FALSE, current_atr |-> 5,  avg_atr |-> 10, trend_strength |-> 0] }

\* 5-minute bars: last volume, mean of the last 5 and of the last 20 volumes
VolumeInputs ==
    { [current_volume |-> 100, avg_volume_5 |-> 100, avg_volume_20 |-> 100],
      [current_volume |-> 150, avg_volume_5 |-> 100, avg_volume_20 |-> 100],
      [current_volume |-> 200, avg_volume_5 |-> 100, avg_volume_20 |-> 100],
      [current_volume |-> 200, avg_volume_5 |-> 120, avg_volume_20 |-> 100] }

\* 15-minute and 1-hour bars: last 15-minute close and the two EMA20 values
BiasInputs ==
    { [missing |-> TRUE,  close |-> 0,   ema_15m |-> 0,  ema_1h |-> 0],
      [missing |-> FALSE, close |-> 100, ema_15m |-> 99, ema_1h |-> 99],
      [missing |-> FALSE, close |-> 100, ema_15m |-> 99, ema_1h |-> 101] }

(***************************************************************************)
(* Market-condition classifier.                                            *)
(***************************************************************************)
\* the trending test tried before the high-volatility test
get_market_condition_mut(m) ==
    IF m.empty THEN [condition |-> "NORMAL", target_rr |-> 25]
    ELSE IF m.current_atr * 10 > m.avg_atr * 12 /\ m.trend_strength > 15
        THEN [condition |-> "TRENDING", target_rr |-> 30]
    ELSE IF m.current_atr * 10 > m.avg_atr * 15 /\ m.trend_strength > 20
        THEN [condition |-> "HIGH_VOLATILITY", target_rr |-> 40]
    ELSE IF m.current_atr * 10 > m.avg_atr * 8
        THEN [condition |-> "NORMAL", target_rr |-> 25]
    ELSE [condition |-> "WEAK", target_rr |-> 20]

get_market_condition(m) ==
    IF m.empty THEN [condition |-> "NORMAL", target_rr |-> 25]
    ELSE IF m.current_atr * 10 > m.avg_atr * 15 /\ m.trend_strength > 20
        THEN [condition |-> "HIGH_VOLATILITY", target_rr |-> 40]
    ELSE IF m.current_atr * 10 > m.avg_atr * 12 /\ m.trend_strength > 15
        THEN [condition |-> "TRENDING", target_rr |-> 30]
    ELSE IF m.current_atr * 10 > m.avg_atr * 8
        THEN [condition |-> "NORMAL", target_rr |-> 25]
    ELSE [condition |-> "WEAK", target_rr |-> 20]

(***************************************************************************)
(* Volume analysis.  volume_surge and volume_trend are kept as the pairs   *)
(* numerator, denominator; GeTenths compares such a ratio with x / 10.     *)
(***************************************************************************)
GeTenths(ratio, x) == ratio[1] * 10 >= x * ratio[2]

enhanced_volume_analysis(w) ==
    LET volume_surge == IF w.avg_volume_20 > 0
                        THEN <<w.current_volume, w.avg_volume_20>>
                        ELSE <<1, 1>>
        volume_trend == IF w.avg_volume_20 > 0
                        THEN <<w.avg_volume_5, w.avg_volume_20>>
                        ELSE <<1, 1>>
    IN [volume_surge |-> volume_surge,
        volume_trend |-> volume_trend,
        is_strong_volume |-> GeTenths(volume_surge, 20) /\ GeTenths(volume_trend, 12)]

(***************************************************************************)
(* Multi-timeframe bias.                                                   *)
(***************************************************************************)
get_higher_timeframe_bias(b) ==
    IF b.missing
    THEN [bias_15m |-> "NEUTRAL", bias_1h |-> "NEUTRAL", aligned |-> FALSE]
    ELSE LET bias_15m == IF b.close > b.ema_15m THEN "BULLISH" ELSE "BEARISH"
             bias_1h == IF b.close > b.ema_1h THEN "BULLISH" ELSE "BEARISH"
         IN [bias_15m |-> bias_15m, bias_1h |-> bias_1h,
             aligned |-> (bias_15m = bias_1h)]

(***************************************************************************)
(* Entry confirmation engine of the enhanced bot.                          *)
(***************************************************************************)
entry_offset == 50
stop_offset == 100

B2N(b) == IF b THEN 1 ELSE 0

\* one flag left out of the sum
confirmation_count_mut(c) ==
    B2N(c.volume_strong) + B2N(c.bias_aligned) + B2N(c.market_suitable)

\* sum(confirmations.values())
confirmation_count(c) ==
    B2N(c.volume_strong) + B2N(c.bias_aligned)
        + B2N(c.market_suitable) + B2N(c.volume_surge)

quorum == 3

target1_of(direction, entry_price, risk_distance, target_rr) ==
    IF direction = "LONG"
    THEN entry_price + (target_rr * risk_distance) \div 10
    ELSE entry_price - (target_rr * risk_distance) \div 10

\* the second target two risk multiples beyond the first
target2_of_mut(direction, entry_price, risk_distance, target_rr) ==
    IF direction = "LONG"
    THEN entry_price + ((target_rr + 20) * risk_distance) \div 10
    ELSE entry_price - ((target_rr + 20) * risk_distance) \div 10

target2_of(direction, entry_price, risk_distance, target_rr) ==
    IF direction = "LONG"
    THEN entry_price + ((target_rr + 10) * risk_distance) \div 10
    ELSE entry_price - ((target_rr + 10) * risk_distance) \div 10

target3_of(direction, entry_price, range_size) ==
    IF direction = "LONG"
    THEN entry_price + 2 * range_size
    ELSE entry_price - 2 * range_size

\* data: None or [market, volume, bias], the figures of the 5-minute,
\* 15-minute and 1-hour fetches; ranges: self.opening_ranges
enhanced_entry_conditions(symbol, current_price, data, ranges) ==
    IF data = None
    THEN [proposal |-> None, reason |-> "No data available",
          confirmations |-> None]
    ELSE IF symbol \notin DOMAIN ranges
    THEN [proposal |-> None, reason |-> "No opening range data",
          confirmations |-> None]
    ELSE
    LET mc == get_market_condition(data.market)
        volume_analysis == enhanced_volume_analysis(data.volume)
        bias_analysis == get_higher_timeframe_bias(data.bias)
        orb == ranges[symbol]
        orh == orb.orh
        orl == orb.orl
        breakout_direction == IF current_price > orh THEN "LONG"
                              ELSE IF current_price < orl THEN "SHORT"
                              ELSE "None"
        confirmations ==
            [volume_strong |-> volume_analysis.is_strong_volume,
             bias_aligned |-> bias_analysis.aligned,
             market_suitable |->
                 mc.condition \in {"NORMAL", "TRENDING", "HIGH_VOLATILITY"},
             volume_surge |-> GeTenths(volume_analysis.volume_surge, 15)]
        count == confirmation_count(confirmations)
        entry_price == IF breakout_direction = "LONG"
                       THEN orh + entry_offset ELSE orl - entry_offset
        stop_loss == IF breakout_direction = "LONG"
                     THEN orl - stop_offset ELSE orh + stop_offset
        risk_distance == IF breakout_direction = "LONG"
                         THEN entry_price - stop_loss
                         ELSE stop_loss - entry_price
    IN  IF breakout_direction = "None"
        THEN [proposal |-> None, reason |-> "No breakout detected",
              confirmations |-> None]
        ELSE IF count >= quorum
        THEN [proposal |->
                [direction |-> breakout_direction,
                 entry_price |-> entry_price,
                 stop_loss |-> stop_loss,
                 target1 |-> target1_of(breakout_direction, entry_price,
                                        risk_distance, mc.target_rr),
                 target2 |-> target2_of(breakout_direction, entry_price,
                                        risk_distance, mc.target_rr),
                 target3 |-> target3_of(breakout_direction, entry_price,
                                        orb.range_size),
                 target_rr |-> mc.target_rr,
                 market_condition |-> mc.condition],
              reason |-> "Enhanced entry confirmed",
              confirmations |-> confirmations]
        ELSE [proposal |-> None,
              reason |-> "Entry conditions not met (" \o ToString(count)
                             \o "/4 confirmations)",
              confirmations |-> confirmations]

(***************************************************************************)
(* Breakout test of the legacy bot.  The proposal carries volume_ok; the   *)
(* caller in run() drops proposals whose volume_ok is false.               *)
(***************************************************************************)
check_breakout_conditions(symbol, current_price, current_volume, ranges) ==
    IF symbol \notin DOMAIN ranges
    THEN [proposal |-> None, reason |-> "No opening range data"]
    ELSE
    LET orb == ranges[symbol]
        orh == orb.orh
        orl == orb.orl
        volume_condition == current_volume * 10 >= orb.volume_avg * 15
    IN  IF current_price > orh
        THEN [proposal |->
                [direction |-> "LONG",
                 entry_price |-> orh + entry_offset,
                 stop_loss |-> orl - stop_offset,
                 target1 |-> orh + entry_offset
                     + 2 * (orh + entry_offset - (orl - stop_offset)),
                 target2 |-> orh + entry_offset
                     + 3 * (orh + entry_offset - (orl - stop_offset)),
                 target3 |-> orh + entry_offset + 2 * orb.range_size,
                 volume_ok |-> volume_condition],
              reason |-> "Bullish breakout detected"]
        ELSE IF current_price < orl
        THEN [proposal |->
                [direction |-> "SHORT",
                 entry_price |-> orl - entry_offset,
                 stop_loss |-> orh + stop_offset,
                 target1 |-> orl - entry_offset
                     - 2 * ((orh + stop_offset) - (orl - entry_offset)),
                 target2 |-> orl - entry_offset
                     - 3 * ((orh + stop_offset) - (orl - entry_offset)),
                 target3 |-> orl - entry_offset - 2 * orb.range_size,
                 volume_ok |-> volume_condition],
              reason |-> "Bearish breakdown detected"]
        ELSE [proposal |-> None, reason |-> "No breakout detected"]

(***************************************************************************)
(* Position sizing.  The legacy bot has no market condition: multiplier 1. *)
(***************************************************************************)
risk_multiplier(market_condition) ==
    CASE market_condition = "WEAK" -> 5
      [] market_condition = "NORMAL" -> 10
      [] market_condition = "TRENDING" -> 12
      [] market_condition = "HIGH_VOLATILITY" -> 8
      [] OTHER -> 10

\* the 2% cap on the position value left out
calculate_position_size_mut(entry_price, stop_loss, market_condition) ==
    LET risk_per_share == Abs(entry_price - stop_loss)
        risk_amount == account_size * risk_per_trade_pct
                           * risk_multiplier(market_condition)
    IN  IF risk_per_share <= 0 THEN 0
        ELSE TruncDiv(risk_amount, risk_per_share)

calculate_position_size(entry_price, stop_loss, market_condition) ==
    LET risk_per_share == Abs(entry_price - stop_loss)
        \* account_size * risk_per_trade * multiplier, in thousandths
        risk_amount == account_size * risk_per_trade_pct
                           * risk_multiplier(market_condition)
        position_size == TruncDiv(risk_amount, risk_per_share)
        max_position_value == account_size * max_position_pct * 10
        max_shares == TruncDiv(max_position_value, entry_price)
    IN  IF risk_per_share <= 0 THEN 0
        ELSE IF position_size < max_shares THEN position_size ELSE max_shares

(***************************************************************************)
(* Trade lifecycle.                                                        *)
(***************************************************************************)
\* the id built from the symbol alone
NewTrade_mut(v, symbol, trade_data, position_size, t) ==
    LET base ==
            [id |-> <<symbol, 0>>,
             symbol |-> symbol,
             direction |-> trade_data.direction,
             entry_price |-> trade_data.entry_price,
             stop_loss |-> trade_data.stop_loss,
             target1 |-> trade_data.target1,
             target2 |-> trade_data.target2,
             target3 |-> trade_data.target3,
             position_size |-> position_size,
             risk_amount |-> position_size
                 * Abs(trade_data.entry_price - trade_data.stop_loss),
             status |-> "ACTIVE",
             tp1_hit |-> FALSE,
             tp2_hit |-> FALSE,
             current_stop |-> trade_data.stop_loss]
    IN  IF v = "enhanced"
        THEN base @@ [target_rr |-> trade_data.target_rr,
                      market_condition |-> trade_data.market_condition]
        ELSE base

\* the trade record of execute_trade; timestamp and the audit copies of
\* confirmations, volume_analysis and bias_analysis are left out
NewTrade(v, symbol, trade_data, position_size, t) ==
    LET base ==
            [id |-> <<symbol, t>>,
             symbol |-> symbol,
             direction |-> trade_data.direction,
             entry_price |-> trade_data.entry_price,
             stop_loss |-> trade_data.stop_loss,
             target1 |-> trade_data.target1,
             target2 |-> trade_data.target2,
             target3 |-> trade_data.target3,
             position_size |-> position_size,
             risk_amount |-> position_size
                 * Abs(trade_data.entry_price - trade_data.stop_loss),
             status |-> "ACTIVE",
             tp1_hit |-> FALSE,
             tp2_hit |-> FALSE,
             current_stop |-> trade_data.stop_loss]
    IN  IF v = "enhanced"
        THEN base @@ [target_rr |-> trade_data.target_rr,
                      market_condition |-> trade_data.market_condition]
        ELSE base

\* account_size * max_daily_loss, in thousandths
daily_loss_limit == account_size * max_daily_loss_pct * 10

\* the trade limit tested with > instead of >=
execute_trade_limit_mut(v, symbol, trade_data, stats, t) ==
    IF stats.trades_today > max_trades_per_day(v)
    THEN [ok |-> FALSE, reason |-> "Daily trade limit reached"]
    ELSE IF Abs(stats.daily_pnl) >= daily_loss_limit
    THEN [ok |-> FALSE, reason |-> "Daily loss limit reached"]
    ELSE
    LET position_size ==
            calculate_position_size(
                trade_data.entry_price, trade_data.stop_loss,
                IF v = "enhanced" THEN trade_data.market_condition
                ELSE "NORMAL")
    IN  IF position_size <= 0
        THEN [ok |-> FALSE, reason |-> "Position size too small"]
        ELSE [ok |-> TRUE, reason |-> "Trade executed",
              trade |-> NewTrade(v, symbol, trade_data, position_size, t)]

\* the loss limit tested without abs(): a negative daily_pnl never trips it
execute_trade_loss_mut(v, symbol, trade_data, stats, t) ==
    IF stats.trades_today >= max_trades_per_day(v)
    THEN [ok |-> FALSE, reason |-> "Daily trade limit reached"]
    ELSE IF stats.daily_pnl >= daily_loss_limit
    THEN [ok |-> FALSE, reason |-> "Daily loss limit reached"]
    ELSE
    LET position_size ==
            calculate_position_size(
                trade_data.entry_price, trade_data.stop_loss,
                IF v = "enhanced" THEN trade_data.market_condition
                ELSE "NORMAL")
    IN  IF position_size <= 0
        THEN [ok |-> FALSE, reason |-> "Position size too small"]
        ELSE [ok |-> TRUE, reason |-> "Trade executed",
              trade |-> NewTrade(v, symbol, trade_data, position_size, t)]

\* execute_trade up to the creation of the trade record
execute_trade(v, symbol, trade_data, stats, t) ==
    IF stats.trades_today >= max_trades_per_day(v)
    THEN [ok |-> FALSE, reason |-> "Daily trade limit reached"]
    ELSE IF Abs(stats.daily_pnl) >= daily_loss_limit
    THEN [ok |-> FALSE, reason |-> "Daily loss limit reached"]
    ELSE
    LET position_size ==
            calculate_position_size(
                trade_data.entry_price, trade_data.stop_loss,
                IF v = "enhanced" THEN trade_data.market_condition
                ELSE "NORMAL")
    IN  IF position_size <= 0
        THEN [ok |-> FALSE, reason |-> "Position size too small"]
        ELSE [ok |-> TRUE, reason |-> "Trade executed",
              trade |-> NewTrade(v, symbol, trade_data, position_size, t)]

\* the status literal misspelt: no open trade ever matches
has_active_trade_mut(symbol, trades) ==
    \E i \in DOMAIN trades :
        trades[i].symbol = symbol /\ trades[i].status = "OPEN"

\* run(): any(trade['symbol'] == symbol and trade['status'] == 'ACTIVE' ...)
has_active_trade(symbol, trades) ==
    \E i \in DOMAIN trades :
        trades[i].symbol = symbol /\ trades[i].status = "ACTIVE"

hit_take_profit(trade, tp_level) ==
    IF tp_level = 1
    THEN [trade EXCEPT !.tp1_hit = TRUE,
                       !.position_size = TruncDiv(trade.position_size * 5, 10)]
    ELSE [trade EXCEPT !.tp2_hit = TRUE,
                       !.position_size = TruncDiv(trade.position_size * 25, 100)]

\* an else branch that puts the original stop back once TP2 is hit
trailing_stop_mut(trade) ==
    IF trade.tp1_hit /\ ~trade.tp2_hit
    THEN [trade EXCEPT !.current_stop = trade.entry_price]
    ELSE [trade EXCEPT !.current_stop = trade.stop_loss]

\* monitor_active_trades: the trailing-stop block at the end of the loop body
trailing_stop(trade) ==
    IF trade.tp1_hit /\ ~trade.tp2_hit
    THEN LET new_stop == trade.entry_price IN
         IF trade.direction = "LONG"
         THEN IF new_stop > trade.current_stop
              THEN [trade EXCEPT !.current_stop = new_stop] ELSE trade
         ELSE IF new_stop < trade.current_stop
              THEN [trade EXCEPT !.current_stop = new_stop] ELSE trade
    ELSE trade

RECURSIVE SumField(_, _)
SumField(h, f) == IF h = << >> THEN 0 ELSE h[1][f] + SumField(Tail(h), f)

\* len([t for t in self.trades_history if t['pnl'] > 0])
Winning(h) == Cardinality({i \in DOMAIN h : h[i].pnl > 0})

trade_pnl(trade, exit_price) ==
    IF trade.direction = "LONG"
    THEN (exit_price - trade.entry_price) * trade.position_size
    ELSE (trade.entry_price - exit_price) * trade.position_size

\* the status update forgotten
closed_record_mut(v, trade, exit_price, reason) ==
    LET pnl == trade_pnl(trade, exit_price)
        risk_amount == Abs(trade.entry_price - trade.stop_loss)
                           * trade.position_size
        actual_rr == IF risk_amount > 0
                     THEN TruncDiv(pnl * 100, risk_amount) ELSE 0
        base == trade @@ [exit_price |-> exit_price,
                          exit_reason |-> reason,
                          pnl |-> pnl]
    IN  IF v = "enhanced" THEN base @@ [actual_rr |-> actual_rr] ELSE base

\* close_trade: the record appended to the history.  actual_rr is kept in
\* hundredths, truncated
closed_record(v, trade, exit_price, reason) ==
    LET pnl == trade_pnl(trade, exit_price)
        risk_amount == Abs(trade.entry_price - trade.stop_loss)
                           * trade.position_size
        actual_rr == IF risk_amount > 0
                     THEN TruncDiv(pnl * 100, risk_amount) ELSE 0
        base == [trade EXCEPT !.status = "CLOSED"]
                    @@ [exit_price |-> exit_price,
                        exit_reason |-> reason,
                        pnl |-> pnl]
    IN  IF v = "enhanced" THEN base @@ [actual_rr |-> actual_rr] ELSE base

\* close_trade: the daily stats after the record is appended; hist is the
\* history with the new record.  win_rate is the pair (100 * winners, total)
\* and avg_rr_achieved the pair (sum of actual_rr, total)
\* the win rate taken over the history without the record just appended
closed_stats_stale_mut(v, stats, pnl, hist) ==
    LET s1 == [stats EXCEPT
                 !.daily_pnl = @ + pnl,
                 !.consecutive_losses = IF pnl < 0 THEN @ + 1 ELSE 0]
        old == SubSeq(hist, 1, Len(hist) - 1)
    IN  IF v = "enhanced"
        THEN [s1 EXCEPT
                 !.win_rate = IF Len(old) > 0
                              THEN <<Winning(old) * 100, Len(old)>>
                              ELSE <<0, 1>>,
                 !.avg_rr_achieved = IF Len(hist) > 0
                              THEN <<SumField(hist, "actual_rr"), Len(hist)>>
                              ELSE <<0, 1>>]
        ELSE s1

\* a close at exactly zero counted as a loss
closed_stats_mut(v, stats, pnl, hist) ==
    LET s1 == [stats EXCEPT
                 !.daily_pnl = @ + pnl,
                 !.consecutive_losses = IF pnl <= 0 THEN @ + 1 ELSE 0]
    IN  IF v = "enhanced"
        THEN [s1 EXCEPT
                 !.win_rate = IF Len(hist) > 0
                              THEN <<Winning(hist) * 100, Len(hist)>>
                              ELSE <<0, 1>>,
                 !.avg_rr_achieved = IF Len(hist) > 0
                              THEN <<SumField(hist, "actual_rr"), Len(hist)>>
                              ELSE <<0, 1>>]
        ELSE s1

\* the realized pnl not booked
closed_stats_pnl_mut(v, stats, pnl, hist) ==
    LET s1 == [stats EXCEPT
                 !.daily_pnl = @,
                 !.consecutive_losses = IF pnl < 0 THEN @ + 1 ELSE 0]
    IN  IF v = "enhanced"
        THEN [s1 EXCEPT
                 !.win_rate = IF Len(hist) > 0
                              THEN <<Winning(hist) * 100, Len(hist)>>
                              ELSE <<0, 1>>,
                 !.avg_rr_achieved = IF Len(hist) > 0
                              THEN <<SumField(hist, "actual_rr"), Len(hist)>>
                              ELSE <<0, 1>>]
        ELSE s1

closed_stats(v, stats, pnl, hist) ==
    LET s1 == [stats EXCEPT
                 !.daily_pnl = @ + pnl,
                 !.consecutive_losses = IF pnl < 0 THEN @ + 1 ELSE 0]
    IN  IF v = "enhanced"
        THEN [s1 EXCEPT
                 !.win_rate = IF Len(hist) > 0
                              THEN <<Winning(hist) * 100, Len(hist)>>
                              ELSE <<0, 1>>,
                 !.avg_rr_achieved = IF Len(hist) > 0
                              THEN <<SumField(hist, "actual_rr"), Len(hist)>>
                              ELSE <<0, 1>>]
        ELSE s1

\* the del statement forgotten
RemoveTrade_mut(trades, id) == trades

\* del self.active_trades[trade_id]
RemoveTrade(trades, id) ==
    SelectSeq(trades, LAMBDA t : t.id # id)

\* assignment through the dict entry of trade_id
ReplaceTrade(trades, trade) ==
    [i \in DOMAIN trades |->
        IF trades[i].id = trade.id THEN trade ELSE trades[i]]

TradeById(trades, id) ==
    trades[CHOOSE i \in DOMAIN trades : trades[i].id = id]

Ids(trades) == {trades[i].id : i \in DOMAIN trades}

\* list(self.active_trades.keys())
KeyList(trades) == [i \in DOMAIN trades |-> trades[i].id]

(***************************************************************************)
(* Persistence.  save_trades_data dumps the open-trade map, the history    *)
(* and the daily stats, whole, into three files; load_trades_data reads    *)
(* them back at construction.  A dump is a copy: later writes to a trade   *)
(* dict do not reach the files.                                            *)
(***************************************************************************)
Documents(trades, history, stats) ==
    [active_trades |-> trades, trades_history |-> history,
     daily_stats |-> stats]

(***************************************************************************)
(* Initial state: the object after __init__, started at any time of day.   *)
(***************************************************************************)
FreshStats(v) ==
    IF v = "enhanced"
    THEN [trades_today |-> 0, daily_pnl |-> 0, consecutive_losses |-> 0,
          win_rate |-> <<0, 1>>, avg_rr_achieved |-> <<0, 1>>]
    ELSE [trades_today |-> 0, daily_pnl |-> 0, consecutive_losses |-> 0]

\* the process is started on a Friday
InitWeekdays == {4}

(***************************************************************************)
(* load_trades_data: with no files the state stays empty; with the files   *)
(* of an earlier run the history and the daily stats are restored.  The    *)
(* earlier run modelled here accepted n breakouts of its first symbol one  *)
(* after the other and closed each at its entry price in the sweep.        *)
(***************************************************************************)
PriorSymbol(v) == IF v = "enhanced" THEN uk_stocks[1] ELSE supported_stocks[1]

PriorRanges(v) ==
    PriorSymbol(v) :> [symbol |-> PriorSymbol(v), orh |-> 105000,
                       orl |-> 100000, range_size |-> 5000,
                       volume_avg |-> 100]

PriorProposal(v) ==
    IF v = "enhanced"
    THEN enhanced_entry_conditions(
             PriorSymbol(v), 106000,
             [market |-> [empty |-> FALSE, current_atr |-> 10, avg_atr |-> 10,
                          trend_strength |-> 0],
              volume |-> [current_volume |-> 200, avg_volume_5 |-> 120,
                          avg_volume_20 |-> 100],
              bias |-> [missing |-> FALSE, close |-> 100, ema_15m |-> 99,
                        ema_1h |-> 99]],
             PriorRanges(v)).proposal
    ELSE check_breakout_conditions(
             PriorSymbol(v), 106000, 150, PriorRanges(v)).proposal

RECURSIVE PriorRun(_, _)
PriorRun(v, n) ==
    IF n = 0
    THEN [history |-> << >>, stats |-> FreshStats(v)]
    ELSE LET p == PriorRun(v, n - 1)
             trade == execute_trade(v, PriorSymbol(v), PriorProposal(v),
                                    p.stats, n - 100).trade
             rec == closed_record(v, trade, trade.entry_price,
                                  "End of Day Close")
             hist == Append(p.history, rec)
         IN  [history |-> hist,
              stats |-> closed_stats(
                            v, [p.stats EXCEPT !.trades_today = @ + 1],
                            rec.pnl, hist)]

\* number of trades of the earlier run: none, or one below the daily limit
PriorTrades(v) == {0, max_trades_per_day(v) - 1}

Init ==
    /\ variant \in {"enhanced", "legacy"}
    /\ slot \in DOMAIN Slots(variant)
    /\ weekday \in InitWeekdays
    /\ day = 0
    /\ clock = 0
    /\ pc = "tick"
    /\ todo = << >>
    /\ active_stocks = << >>
    /\ last_opening_range_calc = NoDate
    /\ opening_ranges = << >>
    /\ active_trades = << >>
    /\ \E n \in PriorTrades(variant) :
         /\ trades_history = PriorRun(variant, n).history
         /\ daily_stats = PriorRun(variant, n).stats
    /\ saved = Documents(active_trades, trades_history, daily_stats)
    /\ range_calls = {}
    /\ last = [op |-> "init"]

(***************************************************************************)
(* time.sleep at the end of a tick: the next tick falls into the same      *)
(* time class or into the next one.                                        *)
(***************************************************************************)
\* classes that hold a single minute: two ticks cannot both fall into one
InstantSlots(v) == IF v = "enhanced" THEN {11} ELSE {5}

NextSlot(v, s) == IF s = Len(Slots(v)) THEN 1 ELSE s + 1

\* the calendar date changes between the two classes
DateChanges(v, s, s2) ==
    IF v = "enhanced" THEN s = 9 /\ s2 = 10 ELSE s = 6 /\ s2 = 1

Advance ==
    /\ clock < MaxTicks
    /\ clock' = clock + 1
    /\ \E s2 \in {slot, NextSlot(variant, slot)} \ (InstantSlots(variant) \cap {slot}) :
         /\ slot' = s2
         /\ IF DateChanges(variant, slot, s2)
            THEN day' = day + 1 /\ weekday' = (weekday + 1) % 7
            ELSE UNCHANGED <<day, weekday>>

Untouched == UNCHANGED <<opening_ranges, active_trades, trades_history,
                         daily_stats, saved, range_calls>>

(***************************************************************************)
(* run(): top of the loop body.                                            *)
(***************************************************************************)
\* the date test dropped: a capture on every tick of the window
CaptureDue_mut(calc, today) == TRUE

\* last_opening_range_calc != now.date()
CaptureDue(calc, today) == calc # today

SessionStocks ==
    IF variant = "enhanced" THEN get_active_stocks_for_session(Now)
    ELSE IF legacy_is_market_open(Now, weekday) THEN supported_stocks
    ELSE << >>

\* no session: sleep 300 and continue
TickIdle ==
    /\ pc = "tick"
    /\ SessionStocks = << >>
    /\ Advance
    /\ active_stocks' = SessionStocks
    /\ last' = [op |-> "idle"]
    /\ UNCHANGED <<variant, pc, todo, last_opening_range_calc>>
    /\ Untouched

TickStart ==
    /\ pc = "tick"
    /\ SessionStocks # << >>
    /\ active_stocks' = SessionStocks
    /\ pc' = "ranges"
    /\ todo' = IF variant = "enhanced" THEN SessionStocks
               ELSE IF legacy_is_opening_range_period(Now, weekday)
                       /\ CaptureDue(last_opening_range_calc, day)
                    THEN supported_stocks
                    ELSE << >>
    /\ last' = [op |-> "tick"]
    /\ UNCHANGED <<variant, slot, weekday, day, clock, last_opening_range_calc>>
    /\ Untouched

(***************************************************************************)
(* Opening-range extractor.                                                *)
(***************************************************************************)
\* data: None or the figures of the first six 5-minute bars
calculate_opening_range(symbol, data, ranges) ==
    IF data = None THEN ranges
    ELSE (symbol :> [symbol |-> symbol,
                     orh |-> data.orh,
                     orl |-> data.orl,
                     range_size |-> data.orh - data.orl,
                     volume_avg |-> data.volume_avg,
                     timestamp |-> <<day, clock>>]) @@ ranges

\* self.calculate_opening_range(symbol) is called: the fetch and, when it
\* returns bars, the store
CallOpeningRange(symbol) ==
    /\ \E data \in RangeInputs(symbol) \cup {None} :
         /\ opening_ranges' =
              calculate_opening_range(symbol, data, opening_ranges)
         /\ last' = [op |-> "range", symbol |-> symbol, invoked |-> TRUE,
                     captured |-> (data # None)]
    /\ range_calls' = range_calls \cup {<<symbol, day>>}

\* the iteration passes without a call
NoOpeningRange(symbol) ==
    /\ last' = [op |-> "range", symbol |-> symbol, invoked |-> FALSE,
                captured |-> FALSE]
    /\ UNCHANGED <<opening_ranges, range_calls>>

\* one iteration of the capture loop of run()
OpeningRangeStep ==
    /\ pc = "ranges"
    /\ todo # << >>
    /\ LET symbol == Head(todo) IN
       IF variant = "enhanced"
       THEN IF enhanced_is_opening_range_period(symbol, Now)
            THEN /\ IF CaptureDue(last_opening_range_calc, day)
                    THEN CallOpeningRange(symbol)
                    ELSE NoOpeningRange(symbol)
                 /\ last_opening_range_calc' = day
            ELSE /\ NoOpeningRange(symbol)
                 /\ UNCHANGED last_opening_range_calc
       ELSE /\ CallOpeningRange(symbol)
            \* after the last symbol: last_opening_range_calc = now.date()
            /\ last_opening_range_calc' =
                 IF Tail(todo) = << >> THEN day ELSE last_opening_range_calc
    /\ todo' = Tail(todo)
    /\ UNCHANGED <<variant, slot, weekday, day, clock, pc, active_stocks,
                   active_trades, trades_history, daily_stats, saved>>

\* if self.active_trades: self.monitor_active_trades()
RangesDone ==
    /\ pc = "ranges"
    /\ todo = << >>
    /\ pc' = "monitor"
    /\ todo' = KeyList(active_trades)
    /\ last' = [op |-> "ranges done"]
    /\ UNCHANGED <<variant, slot, weekday, day, clock, active_stocks,
                   last_opening_range_calc>>
    /\ Untouched

(***************************************************************************)
(* monitor_active_trades: one iteration of the loop over the open trades.  *)
(***************************************************************************)
\* last 1-minute close offered to a trade: its stop, its entry, its targets
\* and a gap to 300.00
MonitorPrices(trade) ==
    {trade.current_stop, trade.entry_price, trade.target1, trade.target2,
     trade.target3, 300000}

\* a price exactly at the stop not taken for a breach
StopBreached_mut(trade, price) ==
    \/ trade.direction = "LONG" /\ price < trade.current_stop
    \/ trade.direction = "SHORT" /\ price > trade.current_stop

StopBreached(trade, price) ==
    \/ trade.direction = "LONG" /\ price <= trade.current_stop
    \/ trade.direction = "SHORT" /\ price >= trade.current_stop

Reached(trade, price, target) ==
    IF trade.direction = "LONG" THEN price >= target ELSE price <= target

\* the target-2 test placed before the target-1 test
take_profit_branch_mut(trade, price) ==
    IF ~trade.tp2_hit /\ Reached(trade, price, trade.target2) THEN "tp2"
    ELSE IF ~trade.tp1_hit /\ Reached(trade, price, trade.target1) THEN "tp1"
    ELSE IF Reached(trade, price, trade.target3) THEN "target3"
    ELSE "none"

\* the take-profit chain of the loop body: which branch runs
take_profit_branch(trade, price) ==
    IF ~trade.tp1_hit /\ Reached(trade, price, trade.target1) THEN "tp1"
    ELSE IF ~trade.tp2_hit /\ Reached(trade, price, trade.target2) THEN "tp2"
    ELSE IF Reached(trade, price, trade.target3) THEN "target3"
    ELSE "none"

\* the trade leaves the open map and enters the history (close_trade)
CloseInto(trade, price, reason, ratchet) ==
    LET rec == closed_record(variant, trade, price, reason)
        hist == Append(trades_history, rec)
    IN  /\ active_trades' = RemoveTrade(active_trades, trade.id)
        \* the loop body goes on with the same dict object: when the caller
        \* does not "continue", the breakeven block still writes to it
        /\ trades_history' = Append(trades_history,
                                IF ratchet THEN trailing_stop(rec) ELSE rec)
        /\ daily_stats' = closed_stats(variant, daily_stats, rec.pnl, hist)
        \* save_trades_data at the end of close_trade
        /\ saved' = Documents(active_trades', hist, daily_stats')

\* hit_take_profit: what reaches the files.  The enhanced bot saves the map
\* with the partial close before the breakeven block of the caller runs.
\* The legacy bot builds its message from the undefined name symbol: the
\* NameError is caught and save_trades_data is not reached
hit_take_profit_save(trade, tp_level) ==
    IF variant = "enhanced"
    THEN Documents(ReplaceTrade(active_trades,
                                hit_take_profit(trade, tp_level)),
                   trades_history, daily_stats)
    ELSE saved

\* the trades the monitoring loop of this tick has skipped so far
MonitorSkipped == IF last.op = "monitor" THEN last.skipped ELSE {}

\* a missing price taken for a price at the stop
MonitorNoData_mut(trade) ==
    /\ last' = [op |-> "monitor", id |-> trade.id, outcome |-> "no data",
                skipped |-> MonitorSkipped \cup {trade.id}]
    /\ CloseInto(trade, trade.current_stop, "Stop Loss Hit", FALSE)
    /\ UNCHANGED <<opening_ranges, range_calls>>

\* the fetch returns nothing: continue
MonitorNoData(trade) ==
    /\ last' = [op |-> "monitor", id |-> trade.id, outcome |-> "no data",
                skipped |-> MonitorSkipped \cup {trade.id}]
    /\ Untouched

MonitorStep ==
    /\ pc = "monitor"
    /\ todo # << >>
    /\ LET trade == TradeById(active_trades, Head(todo)) IN
       \/ MonitorNoData(trade)
       \/ \E price \in MonitorPrices(trade) :
            IF StopBreached(trade, price)
            THEN /\ CloseInto(trade, price, "Stop Loss Hit", FALSE)
                 /\ last' = [op |-> "monitor", id |-> trade.id,
                             price |-> price, outcome |-> "stop",
                             skipped |-> MonitorSkipped]
                 /\ UNCHANGED <<opening_ranges, range_calls>>
            ELSE LET branch == take_profit_branch(trade, price) IN
                 /\ last' = [op |-> "monitor", id |-> trade.id,
                             price |-> price, outcome |-> branch,
                             skipped |-> MonitorSkipped]
                 /\ UNCHANGED <<opening_ranges, range_calls>>
                 /\ CASE branch = "tp1" ->
                           /\ active_trades' = ReplaceTrade(active_trades,
                                  trailing_stop(hit_take_profit(trade, 1)))
                           /\ saved' = hit_take_profit_save(trade, 1)
                           /\ UNCHANGED <<trades_history, daily_stats>>
                      [] branch = "tp2" ->
                           /\ active_trades' = ReplaceTrade(active_trades,
                                  trailing_stop(hit_take_profit(trade, 2)))
                           /\ saved' = hit_take_profit_save(trade, 2)
                           /\ UNCHANGED <<trades_history, daily_stats>>
                      [] branch = "target3" ->
                           CloseInto(trade, price, "Target 3 Hit", TRUE)
                      [] OTHER ->
                           /\ active_trades' = ReplaceTrade(active_trades,
                                  trailing_stop(trade))
                           /\ UNCHANGED <<trades_history, daily_stats, saved>>
    /\ todo' = Tail(todo)
    /\ UNCHANGED <<variant, slot, weekday, day, clock, pc, active_stocks,
                   last_opening_range_calc>>

\* the breakout loop of run() starts
MonitorDone ==
    /\ pc = "monitor"
    /\ todo = << >>
    /\ pc' = "entries"
    /\ todo' = IF variant = "enhanced" THEN active_stocks
               ELSE IF ~legacy_is_opening_range_period(Now, weekday)
                       /\ DOMAIN opening_ranges # {}
                    THEN supported_stocks
                    ELSE << >>
    /\ last' = [op |-> "monitor done"]
    /\ UNCHANGED <<variant, slot, weekday, day, clock, active_stocks,
                   last_opening_range_calc>>
    /\ Untouched

(***************************************************************************)
(* run(): one iteration of the breakout loop.                              *)
(***************************************************************************)
\* last 1-minute close offered to the breakout test of a range
EntryPrices(orb) == {orb.orh + 1000, orb.orh, orb.orl - 1000}

\* last 1-minute volume offered to the legacy breakout test
EntryVolumes == {100, 150}

\* the figures of the 5-minute, 15-minute and 1-hour fetches of one tick:
\* a calm market with a volume surge and aligned bias, a weak market with
\* a modest surge and no higher-timeframe bars
FiveMinuteData ==
    { [market |-> [empty |-> FALSE, current_atr |-> 10, avg_atr |-> 10,
                   trend_strength |-> 0],
       volume |-> [current_volume |-> 200, avg_volume_5 |-> 120,
                   avg_volume_20 |-> 100],
       bias |-> [missing |-> FALSE, close |-> 100, ema_15m |-> 99,
                 ema_1h |-> 99]],
      [market |-> [empty |-> FALSE, current_atr |-> 5, avg_atr |-> 10,
                   trend_strength |-> 0],
       volume |-> [current_volume |-> 150, avg_volume_5 |-> 100,
                   avg_volume_20 |-> 100],
       bias |-> [missing |-> TRUE, close |-> 0, ema_15m |-> 0,
                 ema_1h |-> 0]] }

\* trades_today counted before the limits are tested
Decide_mut(symbol, res, go) ==
    IF go
    THEN IF ~has_active_trade(symbol, active_trades)
         THEN LET ex == execute_trade(variant, symbol, res.proposal,
                                      daily_stats, clock)
              IN  /\ last' = [op |-> "entry", symbol |-> symbol,
                              result |-> res, blocked |-> FALSE,
                              executed |-> [ok |-> ex.ok, reason |-> ex.reason]]
                  /\ daily_stats' = [daily_stats EXCEPT !.trades_today = @ + 1]
                  /\ IF ex.ok
                     THEN /\ active_trades' = Append(active_trades, ex.trade)
                          /\ saved' = Documents(active_trades', trades_history,
                                                daily_stats')
                          /\ UNCHANGED <<opening_ranges, trades_history, range_calls>>
                     ELSE UNCHANGED <<opening_ranges, active_trades,
                                      trades_history, saved, range_calls>>
         ELSE /\ last' = [op |-> "entry", symbol |-> symbol,
                          result |-> res, blocked |-> TRUE, executed |-> None]
              /\ Untouched
    ELSE /\ last' = [op |-> "entry", symbol |-> symbol,
                     result |-> res, blocked |-> FALSE, executed |-> None]
         /\ Untouched

\* what the iteration does once enhanced_entry_conditions or
\* check_breakout_conditions has answered
Decide(symbol, res, go) ==
    IF go
    THEN IF ~has_active_trade(symbol, active_trades)
         THEN LET ex == execute_trade(variant, symbol, res.proposal,
                                      daily_stats, clock)
              IN  /\ last' = [op |-> "entry", symbol |-> symbol,
                              result |-> res, blocked |-> FALSE,
                              executed |-> [ok |-> ex.ok, reason |-> ex.reason]]
                  /\ IF ex.ok
                     THEN /\ active_trades' = Append(active_trades, ex.trade)
                          /\ daily_stats' = [daily_stats EXCEPT
                                                !.trades_today = @ + 1]
                          \* save_trades_data at the end of execute_trade
                          /\ saved' = Documents(active_trades', trades_history,
                                                daily_stats')
                          /\ UNCHANGED <<opening_ranges, trades_history, range_calls>>
                     ELSE Untouched
         ELSE /\ last' = [op |-> "entry", symbol |-> symbol,
                          result |-> res, blocked |-> TRUE, executed |-> None]
              /\ Untouched
    ELSE /\ last' = [op |-> "entry", symbol |-> symbol,
                     result |-> res, blocked |-> FALSE, executed |-> None]
         /\ Untouched

EntrySkip(symbol, why) ==
    /\ last' = [op |-> "entry", symbol |-> symbol,
                result |-> [proposal |-> None, reason |-> why,
                            confirmations |-> None],
                blocked |-> FALSE, executed |-> None]
    /\ Untouched

EntryStep ==
    /\ pc = "entries"
    /\ todo # << >>
    /\ LET symbol == Head(todo) IN
       IF symbol \notin DOMAIN opening_ranges
       THEN EntrySkip(symbol, "not captured")
       ELSE IF variant = "enhanced" /\ ~enhanced_is_market_open(symbol, Now)
       THEN EntrySkip(symbol, "market closed")
       ELSE \/ EntrySkip(symbol, "no price")
            \/ \E current_price \in EntryPrices(opening_ranges[symbol]) :
                 IF variant = "enhanced"
                 THEN \E data \in FiveMinuteData \cup {None} :
                        LET res == enhanced_entry_conditions(
                                       symbol, current_price, data, opening_ranges)
                        IN  Decide(symbol, res, res.proposal # None)
                 ELSE \E current_volume \in EntryVolumes :
                        LET res == check_breakout_conditions(
                                       symbol, current_price, current_volume,
                                       opening_ranges)
                        IN  Decide(symbol, res,
                                   IF res.proposal # None
                                   THEN res.proposal.volume_ok ELSE FALSE)
    /\ todo' = Tail(todo)
    /\ UNCHANGED <<variant, slot, weekday, day, clock, pc, active_stocks,
                   last_opening_range_calc>>

\* the end-of-session sweep of run() starts
EntriesDone ==
    /\ pc = "entries"
    /\ todo = << >>
    /\ pc' = "sweep"
    /\ todo' = IF SweepTime(variant, Now) THEN KeyList(active_trades) ELSE << >>
    /\ last' = [op |-> "entries done", sweep |-> SweepTime(variant, Now)]
    /\ UNCHANGED <<variant, slot, weekday, day, clock, active_stocks,
                   last_opening_range_calc>>
    /\ Untouched

(***************************************************************************)
(* run(): one iteration of the forced end-of-session sweep.                *)
(***************************************************************************)
SweepPrices(trade) == {trade.entry_price, trade.stop_loss}

\* the trades the sweep of this tick has skipped and closed so far
SweepSkipped == IF last.op = "sweep" THEN last.skipped ELSE {}
SweepClosed == IF last.op = "sweep" THEN last.swept ELSE {}

SweepStep ==
    /\ pc = "sweep"
    /\ todo # << >>
    /\ LET trade == TradeById(active_trades, Head(todo)) IN
       \/ \* the fetch returns nothing: the trade stays open
          /\ last' = [op |-> "sweep", id |-> trade.id, closed |-> FALSE,
                      skipped |-> SweepSkipped \cup {trade.id},
                      swept |-> SweepClosed]
          /\ Untouched
       \/ \E price \in SweepPrices(trade) :
            /\ CloseInto(trade, price, "End of Day Close", FALSE)
            /\ last' = [op |-> "sweep", id |-> trade.id, closed |-> TRUE,
                        skipped |-> SweepSkipped,
                        swept |-> SweepClosed \cup {trade.id}]
            /\ UNCHANGED <<opening_ranges, range_calls>>
    /\ todo' = Tail(todo)
    /\ UNCHANGED <<variant, slot, weekday, day, clock, pc, active_stocks,
                   last_opening_range_calc>>

\* time.sleep(60) at the end of the loop body
Sleep ==
    /\ pc = "sweep"
    /\ todo = << >>
    /\ Advance
    /\ pc' = "tick"
    /\ last' = [op |-> "sleep"]
    /\ UNCHANGED <<variant, todo, active_stocks, last_opening_range_calc>>
    /\ Untouched

Next ==
    \/ TickIdle
    \/ TickStart
    \/ OpeningRangeStep
    \/ RangesDone
    \/ MonitorStep
    \/ MonitorDone
    \/ EntryStep
    \/ EntriesDone
    \/ SweepStep
    \/ Sleep

Spec == Init /\ [][Next]_vars

(***************************************************************************)
(* Third specification: the process is stopped while it sleeps between two *)
(* ticks and started again.  __init__ builds an empty object and           *)
(* load_trades_data reads the three documents; the opening ranges and the  *)
(* locals of run() are not persisted.                                      *)
(***************************************************************************)
Restart ==
    /\ pc = "tick"
    /\ last.op \in {"sleep", "idle"}
    /\ active_trades' = saved.active_trades
    /\ trades_history' = saved.trades_history
    /\ daily_stats' = saved.daily_stats
    /\ opening_ranges' = << >>
    /\ range_calls' = {}
    /\ last_opening_range_calc' = NoDate
    /\ active_stocks' = << >>
    /\ todo' = << >>
    /\ last' = [op |-> "restart"]
    /\ UNCHANGED <<variant, slot, weekday, day, clock, pc, saved>>

NextRestart ==
    \/ Next
    \/ Restart

SpecRestart == Init /\ [][NextRestart]_vars

(***************************************************************************)
(* Fourth specification: the enhanced bot is started on the files of an    *)
(* earlier run that left one trade open on each market.                    *)
(***************************************************************************)
RECURSIVE PriorOpen(_)
PriorOpen(symbols) ==
    IF symbols = << >>
    THEN [trades |-> << >>, stats |-> FreshStats("enhanced")]
    ELSE LET p == PriorOpen(Tail(symbols))
             symbol == Head(symbols)
             ranges == symbol :> [PriorRanges("enhanced")[PriorSymbol("enhanced")]
                                     EXCEPT !.symbol = symbol]
             proposal == enhanced_entry_conditions(
                             symbol, 106000, CHOOSE data \in FiveMinuteData :
                                 get_market_condition(data.market).condition
                                     = "NORMAL",
                             ranges).proposal
             ex == execute_trade("enhanced", symbol, proposal, p.stats,
                                 0 - 100 - Len(symbols))
         IN  [trades |-> Append(p.trades, ex.trade),
              stats |-> [p.stats EXCEPT !.trades_today = @ + 1]]

\* the bot is started in the last hour of the US session
OpenStartSlots == {11, 12}

InitOpen ==
    /\ variant = "enhanced"
    /\ slot \in OpenStartSlots
    /\ weekday \in InitWeekdays
    /\ day = 0
    /\ clock = 0
    /\ pc = "tick"
    /\ todo = << >>
    /\ active_stocks = << >>
    /\ last_opening_range_calc = NoDate
    /\ opening_ranges = << >>
    /\ active_trades = PriorOpen(all_stocks).trades
    /\ trades_history = << >>
    /\ daily_stats = PriorOpen(all_stocks).stats
    /\ saved = Documents(active_trades, trades_history, daily_stats)
    /\ range_calls = {}
    /\ last = [op |-> "init"]

SpecOpen == InitOpen /\ [][Next]_vars

(***************************************************************************)
(* Fifth specification: the process is killed inside the save_trades_data  *)
(* call that ends close_trade, between two of its three dumps, and is      *)
(* started again on the files it left.                                     *)
(***************************************************************************)
\* all three dumps or none
save_trades_data_mut(k, old, new) == IF k >= 3 THEN new ELSE old

\* the documents on disk once the first k of the three dumps are done:
\* active_trades.json, then trades_history.json, then daily_stats.json;
\* old: the documents on disk before, new: those in memory
save_trades_data(k, old, new) ==
    [active_trades |-> IF k >= 1 THEN new.active_trades
                       ELSE old.active_trades,
     trades_history |-> IF k >= 2 THEN new.trades_history
                        ELSE old.trades_history,
     daily_stats |-> IF k >= 3 THEN new.daily_stats ELSE old.daily_stats]

\* number of dumps done when the process dies between two of them
CrashPoints == {1, 2}

\* the close_trade calls the current loop iteration can make for a trade:
\* exit price and reason
CloseCalls(trade) ==
    IF pc = "monitor"
    THEN {<<price, "Stop Loss Hit">> :
              price \in {p \in MonitorPrices(trade) : StopBreached(trade, p)}}
         \cup
         {<<price, "Target 3 Hit">> :
              price \in {p \in MonitorPrices(trade) :
                            /\ ~StopBreached(trade, p)
                            /\ take_profit_branch(trade, p) = "target3"}}
    ELSE {<<price, "End of Day Close">> : price \in SweepPrices(trade)}

\* close_trade runs up to its save; the save is cut after k dumps
CrashInClose ==
    /\ pc \in {"monitor", "sweep"}
    /\ todo # << >>
    /\ LET trade == TradeById(active_trades, Head(todo)) IN
       \E call \in CloseCalls(trade) :
       \E k \in CrashPoints :
         LET rec == closed_record(variant, trade, call[1], call[2])
             hist == Append(trades_history, rec)
         IN  /\ active_trades' = RemoveTrade(active_trades, trade.id)
             /\ trades_history' = hist
             /\ daily_stats' = closed_stats(variant, daily_stats, rec.pnl, hist)
             /\ saved' = save_trades_data(
                             k, saved, Documents(active_trades', trades_history',
                                                 daily_stats'))
             /\ last' = [op |-> "crash", id |-> trade.id, dumps |-> k]
    /\ pc' = "down"
    /\ todo' = << >>
    /\ UNCHANGED <<variant, slot, weekday, day, clock, active_stocks,
                   last_opening_range_calc, opening_ranges, range_calls>>

\* __init__ and load_trades_data of the new process, started in time for
\* the next tick: each document is read as it is
Recover ==
    /\ pc = "down"
    /\ Advance
    /\ active_trades' = saved.active_trades
    /\ trades_history' = saved.trades_history
    /\ daily_stats' = saved.daily_stats
    /\ opening_ranges' = << >>
    /\ range_calls' = {}
    /\ last_opening_range_calc' = NoDate
    /\ active_stocks' = << >>
    /\ pc' = "tick"
    /\ last' = [op |-> "recover", id |-> last.id, dumps |-> last.dumps]
    /\ UNCHANGED <<variant, todo, saved>>

NextCrash ==
    \/ Next
    \/ CrashInClose
    \/ Recover

\* the bot is started in the last hour of the US session on the files of
\* an earlier run that left one US trade open
InitCrash ==
    /\ variant = "enhanced"
    /\ slot \in OpenStartSlots
    /\ weekday \in InitWeekdays
    /\ day = 0
    /\ clock = 0
    /\ pc = "tick"
    /\ todo = << >>
    /\ active_stocks = << >>
    /\ last_opening_range_calc = NoDate
    /\ opening_ranges = << >>
    /\ active_trades = PriorOpen(us_stocks).trades
    /\ trades_history = << >>
    /\ daily_stats = PriorOpen(us_stocks).stats
    /\ saved = Documents(active_trades, trades_history, daily_stats)
    /\ range_calls = {}
    /\ last = [op |-> "init"]

SpecCrash == InitCrash /\ [][NextCrash]_vars

(***************************************************************************)
(* Second specification: the entry confirmation engine as a function.      *)
(* The engine is applied to every combination of the input sets; last      *)
(* holds the inputs and the answer.                                        *)
(***************************************************************************)
ProbeData ==
    [market : MarketInputs, volume : VolumeInputs, bias : BiasInputs]

\* an opening range so wide that the risk budget, not the 2% cap, sets
\* the size
WideRangeInputs ==
    { [orh |-> 105000, orl |-> 40000, volume_avg |-> 100] }

ProbeRanges(symbol) ==
    {calculate_opening_range(symbol, data, << >>) :
        data \in RangeInputs(symbol) \cup WideRangeInputs}

InitEntry ==
    /\ variant = "enhanced"
    /\ slot = 1
    /\ weekday \in InitWeekdays
    /\ day = 0
    /\ clock = 0
    /\ pc = "probe"
    /\ todo = << >>
    /\ active_stocks = << >>
    /\ last_opening_range_calc = NoDate
    /\ opening_ranges = << >>
    /\ active_trades = << >>
    /\ trades_history = << >>
    /\ daily_stats = FreshStats(variant)
    /\ saved = Documents(active_trades, trades_history, daily_stats)
    /\ range_calls = {}
    /\ last = [op |-> "init"]

ApplyEntryConditions ==
    /\ pc = "probe"
    /\ \E symbol \in SeqToSet(all_stocks) :
       \E ranges \in ProbeRanges(symbol) :
       \E current_price \in EntryPrices(ranges[symbol]) :
       \E data \in ProbeData \cup {None} :
         last' = [op |-> "enhanced_entry_conditions",
                  symbol |-> symbol,
                  current_price |-> current_price,
                  data |-> data,
                  ranges |-> ranges,
                  result |-> enhanced_entry_conditions(
                                 symbol, current_price, data, ranges)]
    /\ UNCHANGED <<variant, slot, weekday, day, clock, pc, todo,
                   active_stocks, last_opening_range_calc>>
    /\ Untouched

\* check_breakout_conditions of the legacy bot applied the same way
ApplyBreakoutConditions ==
    /\ pc = "probe"
    /\ \E symbol \in SeqToSet(supported_stocks) :
       \E ranges \in ProbeRanges(symbol) :
       \E current_price \in EntryPrices(ranges[symbol]) :
       \E current_volume \in EntryVolumes :
         last' = [op |-> "check_breakout_conditions",
                  symbol |-> symbol,
                  current_price |-> current_price,
                  current_volume |-> current_volume,
                  ranges |-> ranges,
                  result |-> check_breakout_conditions(
                                 symbol, current_price, current_volume, ranges)]
    /\ UNCHANGED <<variant, slot, weekday, day, clock, pc, todo,
                   active_stocks, last_opening_range_calc>>
    /\ Untouched

\* execute_trade, up to the creation of the trade record, applied to the
\* proposal just returned; the daily stats are those of a fresh object
ApplyExecuteTrade ==
    /\ pc = "probe"
    /\ last.op \in {"enhanced_entry_conditions", "check_breakout_conditions"}
    /\ last.result.proposal # None
    /\ LET v == IF last.op = "enhanced_entry_conditions"
                THEN "enhanced" ELSE "legacy"
       IN  last' = [op |-> "execute_trade",
                    v |-> v,
                    symbol |-> last.symbol,
                    trade_data |-> last.result.proposal,
                    executed |-> execute_trade(v, last.symbol,
                                     last.result.proposal, FreshStats(v), clock)]
    /\ UNCHANGED <<variant, slot, weekday, day, clock, pc, todo,
                   active_stocks, last_opening_range_calc>>
    /\ Untouched

\* 5-minute bars on and next to the thresholds of the classifier
ConditionInputs ==
    MarketInputs \cup
    { [empty |-> FALSE, current_atr |-> 16, avg_atr |-> 10, trend_strength |-> 20],
      [empty |-> FALSE, current_atr |-> 16, avg_atr |-> 10, trend_strength |-> 15],
      [empty |-> FALSE, current_atr |-> 15, avg_atr |-> 10, trend_strength |-> 25],
      [empty |-> FALSE, current_atr |-> 12, avg_atr |-> 10, trend_strength |-> 25],
      [empty |-> FALSE, current_atr |-> 8,  avg_atr |-> 10, trend_strength |-> 25],
      [empty |-> FALSE, current_atr |-> 9,  avg_atr |-> 10, trend_strength |-> 0] }

\* get_market_condition applied to the figures of one 5-minute fetch
ApplyMarketCondition ==
    /\ pc = "probe"
    /\ \E m \in ConditionInputs :
         last' = [op |-> "get_market_condition", m |-> m,
                  result |-> get_market_condition(m)]
    /\ UNCHANGED <<variant, slot, weekday, day, clock, pc, todo,
                   active_stocks, last_opening_range_calc>>
    /\ Untouched

\* the 5-minute bars of one capture window, oldest first: a rising
\* opening half hour and one that dips and recovers
WindowBars ==
    { << [high |-> 101000, low |-> 100000, volume |-> 100],
         [high |-> 102000, low |-> 100500, volume |-> 100],
         [high |-> 103000, low |-> 101500, volume |-> 100],
         [high |-> 104000, low |-> 102500, volume |-> 100],
         [high |-> 105000, low |-> 103500, volume |-> 100],
         [high |-> 106000, low |-> 104500, volume |-> 100] >>,
      << [high |-> 105000, low |-> 104000, volume |-> 100],
         [high |-> 104500, low |-> 102000, volume |-> 100],
         [high |-> 103000, low |-> 100000, volume |-> 100],
         [high |-> 102000, low |-> 100500, volume |-> 100],
         [high |-> 104000, low |-> 101500, volume |-> 100],
         [high |-> 104800, low |-> 103500, volume |-> 100] >> }

\* minutes into the capture window at which run() makes its call of the
\* day: the first tick that falls into the window
CallMinutes == {0, 1, 4, 5, 12, 24, 25, 30}

\* ticker.history(period="1d", interval="5m") at that minute: the bars
\* begun so far
BarsBegun(minute) == minute \div 5 + 1

\* data.head(6)
Head6(bars) == SubSeq(bars, 1, IF Len(bars) < 6 THEN Len(bars) ELSE 6)

\* opening_data['High'].max(), opening_data['Low'].min() and the mean of
\* data['Volume']
OpeningFigures(data) ==
    LET opening_data == Head6(data)
        orh == CHOOSE h \in {opening_data[i].high : i \in DOMAIN opening_data} :
                   \A i \in DOMAIN opening_data : opening_data[i].high <= h
        orl == CHOOSE l \in {opening_data[i].low : i \in DOMAIN opening_data} :
                   \A i \in DOMAIN opening_data : opening_data[i].low >= l
    IN  [orh |-> orh, orl |-> orl,
         volume_avg |-> SumField(data, "volume") \div Len(data)]

\* calculate_opening_range called minute minutes into the window of a day
\* whose opening bars are bars
ApplyOpeningRange ==
    /\ pc = "probe"
    /\ \E symbol \in SeqToSet(all_stocks) :
       \E bars \in WindowBars :
       \E minute \in CallMinutes :
         LET data == SubSeq(bars, 1, IF BarsBegun(minute) < Len(bars)
                                     THEN BarsBegun(minute) ELSE Len(bars))
         IN  last' = [op |-> "calculate_opening_range",
                      symbol |-> symbol,
                      bars |-> bars,
                      minute |-> minute,
                      data |-> data,
                      ranges |-> calculate_opening_range(
                                     symbol, OpeningFigures(data), << >>)]
    /\ UNCHANGED <<variant, slot, weekday, day, clock, pc, todo,
                   active_stocks, last_opening_range_calc>>
    /\ Untouched

NextEntry ==
    \/ ApplyEntryConditions
    \/ ApplyBreakoutConditions
    \/ ApplyExecuteTrade
    \/ ApplyMarketCondition
    \/ ApplyOpeningRange

SpecEntry == InitEntry /\ [][NextEntry]_vars

(***************************************************************************)
(* Properties.                                                             *)
(***************************************************************************)
AllTrades == active_trades \o trades_history

\* P holds of every pair (record before the step, record after the step)
\* of one trade
ForEachTradeStep(P(_, _)) ==
    \A i \in DOMAIN (active_trades \o trades_history) :
    \A j \in DOMAIN (active_trades' \o trades_history') :
        LET a == (active_trades \o trades_history)[i]
            b == (active_trades' \o trades_history')[j]
        IN  a.id = b.id => P(a, b)

ExecuteCalled(l) == l.op = "entry" /\ l.executed # None

\* C1: in every reachable state, for each symbol at most one trade of the
\* open-trade map has that symbol and status ACTIVE.
C1_OneActivePerSymbol ==
    \A i, j \in DOMAIN active_trades :
        ( /\ active_trades[i].symbol = active_trades[j].symbol
          /\ active_trades[i].status = "ACTIVE"
          /\ active_trades[j].status = "ACTIVE" ) => i = j

\* a confirmed breakout of a symbol that already has an open trade was
\* turned away by the check in run()
C1_Witness ==
    /\ last.op = "entry"
    /\ last.blocked
    /\ \E i \in DOMAIN active_trades :
         active_trades[i].symbol = last.symbol

\* C2: over the whole lifetime of a trade the current_stop of a LONG trade
\* never decreases and the current_stop of a SHORT trade never increases.
StopTightens(a, b) ==
    IF a.direction = "LONG"
    THEN b.current_stop >= a.current_stop
    ELSE b.current_stop <= a.current_stop

C2_StopNeverLoosens == [][ForEachTradeStep(StopTightens)]_vars

\* a trade whose stop has been moved, after which TP2 was hit as well
C2_Witness ==
    \E i \in DOMAIN AllTrades :
        /\ AllTrades[i].current_stop # AllTrades[i].stop_loss
        /\ AllTrades[i].tp2_hit

\* C3: tp1_hit and tp2_hit of a trade never go back from true to false, and
\* tp2_hit becomes true only in a step that starts with tp1_hit true;
\* hit_take_profit level 2 is never run on a trade without TP1.
FlagsOnce(a, b) ==
    /\ a.tp1_hit => b.tp1_hit
    /\ a.tp2_hit => b.tp2_hit
    /\ (b.tp2_hit /\ ~a.tp2_hit) => a.tp1_hit

C3_TakeProfitFlags ==
    [][ /\ ForEachTradeStep(FlagsOnce)
        /\ (last'.op = "monitor" /\ last'.outcome = "tp2")
              => TradeById(active_trades, last'.id).tp1_hit ]_vars

\* TP2 has been hit on a SHORT trade
C3_Witness ==
    \E i \in DOMAIN AllTrades :
        /\ AllTrades[i].tp2_hit
        /\ AllTrades[i].direction = "SHORT"

\* the size the trade was created with: risk_amount is written once, as
\* size * |entry - stop|
OriginalSize(trade) ==
    trade.risk_amount \div Abs(trade.entry_price - trade.stop_loss)

\* C4: the position size is floor(S * 0.5) after the TP1 partial close and
\* floor(S * 0.25) after the TP2 partial close, S being the original size.
C4_PartialCloseSizes ==
    \A i \in DOMAIN AllTrades :
        LET trade == AllTrades[i]
            S == OriginalSize(trade)
        IN  /\ (trade.tp1_hit /\ ~trade.tp2_hit)
                  => trade.position_size = (S * 5) \div 10
            /\ trade.tp2_hit => trade.position_size = (S * 25) \div 100

CloseReasons == {"Stop Loss Hit", "Target 3 Hit", "End of Day Close"}

\* C5: a trade is moved from the open-trade map to the history at most
\* once, each move is caused by exactly one of stop hit, target-3 hit and
\* forced end-of-session close, and no id appears twice in the history.
HistoryMove ==
    trades_history' # trades_history =>
        LET n == Len(trades_history)
            rec == trades_history'[n + 1]
        IN  /\ Len(trades_history') = n + 1
            /\ SubSeq(trades_history', 1, n) = trades_history
            /\ rec.id \in Ids(active_trades)
            /\ rec.id \notin Ids(active_trades')
            /\ \/ /\ last'.op = "monitor" /\ last'.outcome = "stop"
                  /\ rec.exit_reason = "Stop Loss Hit"
               \/ /\ last'.op = "monitor" /\ last'.outcome = "target3"
                  /\ rec.exit_reason = "Target 3 Hit"
               \/ /\ last'.op = "sweep"
                  /\ rec.exit_reason = "End of Day Close"

C5_ClosedOnce ==
    /\ [](/\ \A i, j \in DOMAIN trades_history :
                trades_history[i].id = trades_history[j].id => i = j
          /\ \A i \in DOMAIN trades_history :
                trades_history[i].exit_reason \in CloseReasons
          /\ Ids(active_trades) \cap Ids(trades_history) = {})
    /\ [][HistoryMove]_vars

\* trades of this run have left the map by a stop hit and by a target-3 hit
C5_Witness ==
    /\ \E i \in DOMAIN trades_history :
         /\ trades_history[i].exit_reason = "Stop Loss Hit"
         /\ trades_history[i].id[2] >= 0
    /\ \E i \in DOMAIN trades_history :
         /\ trades_history[i].exit_reason = "Target 3 Hit"
         /\ trades_history[i].id[2] >= 0

SweepOver == pc = "sweep" /\ todo = << >> /\ SweepTime(variant, Now)

ClosedBySweep(id) ==
    \E i \in DOMAIN trades_history :
        /\ trades_history[i].id = id
        /\ trades_history[i].status = "CLOSED"
        /\ trades_history[i].exit_reason = "End of Day Close"

\* C6 as stated: when a tick runs the forced end-of-session sweep, every
\* trade that was in the open-trade map is closed with the session-close
\* reason by the end of the tick, so the map is empty after the sweep.
C6_SweepEmptiesMap ==
    SweepOver =>
        /\ active_trades = << >>
        /\ last.op = "sweep" =>
               \A id \in last.skipped \cup last.swept : ClosedBySweep(id)

\* C6 as amended: the sweep closes, with the session-close reason, every
\* open trade whose price fetch returns data, whatever its TP state; the
\* trades left in the map after the sweep are those whose fetch returned
\* nothing.
C6_SweepClosesFetched ==
    (SweepOver /\ last.op = "sweep") =>
        /\ Ids(active_trades) = last.skipped
        /\ \A id \in last.swept : ClosedBySweep(id)

\* a sweep has closed a trade that had taken its first profit
C6_Witness ==
    /\ SweepOver
    /\ last.op = "sweep"
    /\ \E i \in DOMAIN trades_history :
         /\ trades_history[i].id \in last.swept
         /\ trades_history[i].tp1_hit

\* C7: execute_trade rejects with 'Daily trade limit reached' whenever
\* trades_today >= max_trades_per_day, and accepts nothing.
C7_TradeLimit ==
    [][ ( /\ ExecuteCalled(last')
          /\ daily_stats.trades_today >= max_trades_per_day(variant) )
        => /\ last'.executed =
                [ok |-> FALSE, reason |-> "Daily trade limit reached"]
           /\ active_trades' = active_trades
           /\ daily_stats' = daily_stats ]_vars

\* the limit has turned a confirmed breakout away
C7_Witness ==
    /\ ExecuteCalled(last)
    /\ last.executed.reason = "Daily trade limit reached"
    /\ daily_stats.trades_today = max_trades_per_day(variant)

\* C8: execute_trade rejects whenever |daily_pnl| >= account_size *
\* max_daily_loss, and no trade is accepted in a state where that holds.
C8_LossLimit ==
    [][ Abs(daily_stats.daily_pnl) >= daily_loss_limit
        => /\ ExecuteCalled(last') => ~last'.executed.ok
           /\ Ids(active_trades') \subseteq Ids(active_trades)
           /\ daily_stats'.trades_today = daily_stats.trades_today ]_vars

\* the loss limit has turned a confirmed breakout away
C8_Witness ==
    /\ ExecuteCalled(last)
    /\ last.executed.reason = "Daily loss limit reached"

\* a policy rejection on the entry path: no captured range, no breakout,
\* quorum not met, or a refusal of execute_trade
PolicyRejection(l) ==
    /\ l.op = "entry"
    /\ \/ l.result.reason \in {"not captured", "No opening range data",
                               "No breakout detected"}
       \/ l.result.proposal = None /\ l.result.confirmations # None
       \/ l.executed # None /\ ~l.executed.ok

\* C9: a policy rejection on the entry path leaves the open-trade map, the
\* history, the daily stats and the stored opening ranges unchanged.
C9_RejectionChangesNothing ==
    [][ PolicyRejection(last')
        => UNCHANGED <<active_trades, trades_history, daily_stats,
                       opening_ranges>> ]_vars

\* execute_trade has refused a confirmed breakout for its size
C9_Witness ==
    /\ ExecuteCalled(last)
    /\ last.executed.reason = "Position size too small"

FlagNames == {"volume_strong", "bias_aligned", "market_suitable",
              "volume_surge"}

TrueFlags(c) == Cardinality({f \in FlagNames : c[f]})

\* C10: on a breakout, enhanced_entry_conditions returns a proposal if and
\* only if at least 3 of the 4 confirmation flags are true; with fewer it
\* returns no proposal and a reason that carries the number of true flags.
C10_Quorum ==
    ( /\ last.op = "enhanced_entry_conditions"
      /\ last.data # None
      /\ \/ last.current_price > last.ranges[last.symbol].orh
         \/ last.current_price < last.ranges[last.symbol].orl )
    => LET va == enhanced_volume_analysis(last.data.volume)
           flags ==
               [volume_strong |-> va.is_strong_volume,
                bias_aligned |-> get_higher_timeframe_bias(last.data.bias).aligned,
                market_suitable |->
                    get_market_condition(last.data.market).condition # "WEAK",
                volume_surge |-> GeTenths(va.volume_surge, 15)]
           k == TrueFlags(flags)
       IN  /\ (last.result.proposal # None) <=> (k >= 3)
           /\ k < 3 => last.result.reason =
                  "Entry conditions not met (" \o ToString(k)
                      \o "/4 confirmations)"

\* a SHORT breakout confirmed by exactly three flags, volume_surge among them
C10_Witness ==
    /\ last.op = "enhanced_entry_conditions"
    /\ last.result.proposal # None
    /\ last.result.proposal.direction = "SHORT"
    /\ TrueFlags(last.result.confirmations) = 3
    /\ last.result.confirmations.volume_surge

\* C11: a confirmed LONG proposal has entry = high + 0.05, stop = low - 0.10,
\* target1 = entry + RR * risk, target2 = entry + (RR + 1) * risk and
\* target3 = entry + 2 * range_size with risk = entry - stop; a SHORT
\* proposal is the mirror image.  RR is the target of the market condition
\* in the enhanced bot and 2 in the legacy bot.
C11_EntryNumbers ==
    ( /\ last.op \in {"enhanced_entry_conditions", "check_breakout_conditions"}
      /\ last.result.proposal # None )
    => LET p == last.result.proposal
           orb == last.ranges[last.symbol]
           RR == IF last.op = "enhanced_entry_conditions"
                 THEN get_market_condition(last.data.market).target_rr
                 ELSE 20
           sgn == IF p.direction = "LONG" THEN 1 ELSE -1
           risk == sgn * (p.entry_price - p.stop_loss)
       IN  /\ p.direction \in {"LONG", "SHORT"}
           /\ p.direction = "LONG" =>
                 /\ p.entry_price = orb.orh + 50
                 /\ p.stop_loss = orb.orl - 100
           /\ p.direction = "SHORT" =>
                 /\ p.entry_price = orb.orl - 50
                 /\ p.stop_loss = orb.orh + 100
           /\ risk > 0
           /\ 10 * (p.target1 - p.entry_price) = sgn * RR * risk
           /\ 10 * (p.target2 - p.entry_price) = sgn * (RR + 10) * risk
           /\ p.target3 - p.entry_price = sgn * 2 * (orb.orh - orb.orl)

\* the worked example: range 105 / 100, LONG at RR 2.5
C11_Witness ==
    /\ last.op = "enhanced_entry_conditions"
    /\ last.ranges[last.symbol].orh = 105000
    /\ last.ranges[last.symbol].orl = 100000
    /\ last.result.proposal # None
    /\ last.result.proposal.direction = "LONG"
    /\ last.result.proposal.target_rr = 25
    /\ last.result.proposal.entry_price = 105050
    /\ last.result.proposal.stop_loss = 99900
    /\ last.result.proposal.target1 = 117925

\* the size the sizing rule gives a proposal under a size multiplier in
\* tenths
RuleSize(p, mult) ==
    LET raw == (account_size * risk_per_trade_pct * mult)
                   \div Abs(p.entry_price - p.stop_loss)
        cap == (account_size * 20) \div p.entry_price
    IN  IF raw < cap THEN raw ELSE cap

RuleMultiplier(v, p) ==
    IF v = "legacy" THEN 10
    ELSE CASE p.market_condition = "WEAK" -> 5
           [] p.market_condition = "NORMAL" -> 10
           [] p.market_condition = "TRENDING" -> 12
           [] p.market_condition = "HIGH_VOLATILITY" -> 8

\* C12: with the limits not reached, execute_trade accepts a proposal
\* exactly when min(floor(risk budget / |entry - stop|), floor(2% of the
\* account / entry)) is positive, and the accepted trade has that size, so
\* its size is at least 1 and size * entry is at most 2% of the account.
C12_PositionSize ==
    last.op = "execute_trade"
    => LET p == last.trade_data
           size == RuleSize(p, RuleMultiplier(last.v, p))
       IN  /\ last.executed.ok <=> size > 0
           /\ ~last.executed.ok =>
                 last.executed.reason = "Position size too small"
           /\ last.executed.ok =>
                 /\ last.executed.trade.position_size = size
                 /\ last.executed.trade.position_size >= 1
                 /\ last.executed.trade.position_size * p.entry_price
                        <= account_size * 20

\* a trade in a trending market whose size is set by the risk budget
C12_Witness ==
    /\ last.op = "execute_trade"
    /\ last.executed.ok
    /\ last.trade_data.market_condition = "TRENDING"
    /\ last.executed.trade.position_size
          < (account_size * 20) \div last.trade_data.entry_price

\* C13: every mutation of the open-trade map, the history and the daily
\* stats is written to the files before the next operation, so at the end
\* of every tick the three documents equal the in-memory state.
C13_PersistedEqualsMemory ==
    pc = "tick" =>
        saved = Documents(active_trades, trades_history, daily_stats)

\* C14: a record of the closed history is never changed: every step, a
\* restart included, leaves the records already in the history as they are,
\* and the record a close adds is, at the end of the step, the record
\* close_trade appended.
C14_HistoryImmutable ==
    [][ /\ \A i \in DOMAIN trades_history :
              /\ i \in DOMAIN trades_history'
              /\ trades_history'[i] = trades_history[i]
        /\ Len(trades_history') = Len(trades_history) + 1 =>
              LET rec == trades_history'[Len(trades_history')]
              IN  rec = closed_record(variant,
                            TradeById(active_trades, rec.id),
                            rec.exit_price, rec.exit_reason) ]_vars

\* C15: when the price fetch of a trade returns nothing during monitoring,
\* the trade, the rest of the open-trade map, the history and the daily
\* stats are left as they are, and the loop goes on with the other open
\* trades of the tick.
C15_MonitorSkip ==
    [][ (last'.op = "monitor" /\ last'.outcome = "no data")
        => /\ UNCHANGED <<active_trades, trades_history, daily_stats>>
           /\ last'.id \in Ids(active_trades')
           /\ pc' = "monitor"
           /\ todo' = Tail(todo) ]_vars

\* a trade took its first profit in the loop that skipped another trade
C15_Witness ==
    /\ last.op = "monitor"
    /\ last.outcome = "tp1"
    /\ last.skipped # {}
    /\ \A id \in last.skipped : id \in Ids(active_trades)

\* C16: a close adds 1 to consecutive_losses when the realized pnl is
\* negative and sets it to 0 otherwise; no other step changes it.
C16_ConsecutiveLosses ==
    [][ IF Len(trades_history') = Len(trades_history) + 1
        THEN LET rec == trades_history'[Len(trades_history')]
             IN  daily_stats'.consecutive_losses =
                     IF rec.pnl < 0
                     THEN daily_stats.consecutive_losses + 1
                     ELSE 0
        ELSE daily_stats'.consecutive_losses
                 = daily_stats.consecutive_losses ]_vars

\* a losing close followed by a winning close has put the counter back to 0
C16_Witness ==
    /\ daily_stats.consecutive_losses = 0
    /\ \E i, j \in DOMAIN trades_history :
         /\ i < j
         /\ j = Len(trades_history)
         /\ trades_history[i].pnl < 0
         /\ trades_history[j].pnl > 0

\* C17: in the enhanced bot win_rate is 100 * (records of the history with
\* pnl > 0) / (records of the history), the record just closed included.
C17_WinRate ==
    (variant = "enhanced" /\ Len(trades_history) > 0)
    => /\ daily_stats.win_rate[2] > 0
       /\ daily_stats.win_rate[1] * Len(trades_history)
            = 100 * Cardinality({i \in DOMAIN trades_history :
                                     trades_history[i].pnl > 0})
                  * daily_stats.win_rate[2]

\* a winning trade has just been closed into a history that also holds
\* trades that did not win
C17_Witness ==
    /\ variant = "enhanced"
    /\ last.op = "monitor"
    /\ last.outcome = "target3"
    /\ trades_history[Len(trades_history)].pnl > 0
    /\ \E i \in DOMAIN trades_history : trades_history[i].pnl <= 0

\* C18: the achieved risk:reward recorded on close is the realized pnl
\* divided by |entry - original stop| * original size, also for trades that
\* TP1 or TP2 has reduced.  risk_amount holds that product since entry.
C18_AchievedRR ==
    \A i \in DOMAIN trades_history :
        LET rec == trades_history[i] IN
        (variant = "enhanced" /\ rec.risk_amount > 0)
        => rec.actual_rr = TruncDiv(rec.pnl * 100, rec.risk_amount)

\* the wrap-aware interval [18:30, 24:00) union [00:00, 01:00]
InOvernightSession(t) ==
    \/ MinuteOfDay(t) >= 18 * 60 + 30
    \/ MinuteOfDay(t) <= 1 * 60

\* C19: the session resolver reports the US session open exactly at the
\* local times in [18:30, 24:00) union [00:00, 01:00].
C19_OvernightSession ==
    [][ (variant = "enhanced" /\ last'.op \in {"tick", "idle"})
        => ( us_stocks[1] \in SeqToSet(active_stocks')
               <=> InOvernightSession(Now) ) ]_vars

\* C20: on a Saturday or Sunday tick the set of active symbols is empty,
\* no opening range is captured and no trade is opened.
C20_WeekendClosed ==
    [][ weekday >= 5
        => /\ last'.op \in {"tick", "idle"} => active_stocks' = << >>
           /\ opening_ranges' = opening_ranges
           /\ Ids(active_trades') \subseteq Ids(active_trades) ]_vars

\* C21: within one run of the process, calculate_opening_range is called at
\* most once for a symbol on a calendar day: a call for a symbol never
\* follows an earlier call for the same symbol on the same day.
C21_RangeOncePerDay ==
    [][ (pc = "ranges" /\ last'.op = "range" /\ last'.invoked)
            => <<last'.symbol, day>> \notin range_calls ]_vars

\* a later tick inside the capture window of a symbol already served today
C21_Witness ==
    /\ last.op = "range"
    /\ ~last.invoked
    /\ <<last.symbol, day>> \in range_calls
    /\ variant = "enhanced"
    /\ enhanced_is_opening_range_period(last.symbol, Now)

\* volatility above x tenths of its mean
VolAbove(m, x) == m.current_atr * 10 > x * m.avg_atr

\* C22: get_market_condition answers for every input, by the first rule
\* that matches: volatility > 1.5 * mean and trend > 0.02 gives
\* HIGH_VOLATILITY / 4.0; else volatility > 1.2 * mean and trend > 0.015
\* gives TRENDING / 3.0; else volatility > 0.8 * mean gives NORMAL / 2.5;
\* else WEAK / 2.0.  The RR lies in [2.0, 5.0], and an empty volatility
\* series gives NORMAL / 2.5.
C22_MarketCondition ==
    last.op = "get_market_condition" =>
        LET m == last.m
            r == last.result
            high == VolAbove(m, 15) /\ m.trend_strength > 20
            trending == VolAbove(m, 12) /\ m.trend_strength > 15
            normal == VolAbove(m, 8)
        IN  /\ r.target_rr >= 20 /\ r.target_rr <= 50
            /\ r.condition \in {"HIGH_VOLATILITY", "TRENDING", "NORMAL", "WEAK"}
            /\ m.empty => r = [condition |-> "NORMAL", target_rr |-> 25]
            /\ ~m.empty =>
                 /\ high => r = [condition |-> "HIGH_VOLATILITY", target_rr |-> 40]
                 /\ (~high /\ trending)
                       => r = [condition |-> "TRENDING", target_rr |-> 30]
                 /\ (~high /\ ~trending /\ normal)
                       => r = [condition |-> "NORMAL", target_rr |-> 25]
                 /\ (~high /\ ~trending /\ ~normal)
                       => r = [condition |-> "WEAK", target_rr |-> 20]

\* an input that passes the first three tests is classed by the first
C22_Witness ==
    /\ last.op = "get_market_condition"
    /\ ~last.m.empty
    /\ VolAbove(last.m, 15) /\ last.m.trend_strength > 20
    /\ last.result.condition = "HIGH_VOLATILITY"

\* the messages handed to send_telegram_message by the step of outcome l:
\* execute_trade sends after it has stored the trade and close_trade after
\* it has moved the trade; hit_take_profit of the enhanced bot sends, the
\* one of the legacy bot fails on the undefined name before the send; the
\* refusals of execute_trade return before the send and run() sends nothing
Notifications(v, l) ==
    IF l.op = "entry"
    THEN IF l.executed # None /\ l.executed.ok
         THEN {"Trade Executed"} ELSE {}
    ELSE IF l.op = "monitor"
    THEN IF l.outcome \in {"stop", "target3"} THEN {"Trade Closed"}
         ELSE IF l.outcome \in {"tp1", "tp2"} /\ v = "enhanced"
         THEN {"Target Hit"} ELSE {}
    ELSE IF l.op = "sweep"
    THEN IF l.closed THEN {"Trade Closed"} ELSE {}
    ELSE {}

\* an entry refused for the quorum or by execute_trade
EntryRejected(l) ==
    /\ l.op = "entry"
    /\ \/ l.result.proposal = None /\ l.result.confirmations # None
       \/ l.executed # None /\ ~l.executed.ok

\* a trade closed by the monitoring loop or by the sweep
TradeClosed(l) ==
    \/ l.op = "monitor" /\ l.outcome \in {"stop", "target3"}
    \/ l.op = "sweep" /\ l.closed

\* C23: every rejection of an entry (quorum not met, daily trade limit,
\* daily loss limit, position size too small) and every closure of a trade
\* hands a message to the notification collaborator in the same step.
C23_Narrated ==
    (EntryRejected(last) \/ TradeClosed(last))
        => Notifications(variant, last) # {}

\* C24: on every tick of the main loop every trade of the open-trade map is
\* evaluated against its stop and its targets, also when no market session
\* is open: a tick that ends without entering the monitoring loop has no
\* open trade.
C24_MonitoredEveryTick ==
    [][ (pc = "tick" /\ last'.op = "idle") => active_trades = << >> ]_vars

\* the price is at or beyond the current stop, against the direction
AtOrBeyondStop(trade, price) ==
    IF trade.direction = "LONG" THEN price <= trade.current_stop
    ELSE price >= trade.current_stop

\* C25: whatever take-profit flags a trade carries, a monitoring price at
\* or beyond its current stop closes it with reason "Stop Loss Hit", and
\* the closed record carries the flags, the size and the stop the trade had
\* before: no flag is set, nothing is partially closed, no ratchet.
C25_StopHit ==
    [][ ( /\ pc = "monitor"
          /\ last'.op = "monitor"
          /\ last'.outcome # "no data"
          /\ AtOrBeyondStop(TradeById(active_trades, last'.id), last'.price) )
        => LET trade == TradeById(active_trades, last'.id)
               rec == trades_history'[Len(trades_history')]
           IN  /\ trade.id \notin Ids(active_trades')
               /\ Len(trades_history') = Len(trades_history) + 1
               /\ rec.id = trade.id
               /\ rec.status = "CLOSED"
               /\ rec.exit_reason = "Stop Loss Hit"
               /\ rec.exit_price = last'.price
               /\ rec.tp1_hit = trade.tp1_hit
               /\ rec.tp2_hit = trade.tp2_hit
               /\ rec.position_size = trade.position_size
               /\ rec.current_stop = trade.current_stop ]_vars

\* a trade stopped out after both partial closes
C25_Witness ==
    /\ last.op = "monitor"
    /\ last.outcome = "stop"
    /\ trades_history # << >>
    /\ LET rec == trades_history[Len(trades_history)]
       IN  /\ rec.id = last.id
           /\ rec.tp1_hit /\ rec.tp2_hit
           /\ rec.exit_price = rec.current_stop

\* a tick has just ended
TickOver == pc = "tick" /\ last.op \in {"sleep", "idle"}

\* C26: at the end of every tick, an open trade with tp1_hit has its
\* current stop at the entry price and an open trade without tp1_hit has
\* its current stop at the original stop, also when the trade was restored
\* from the files after a restart.
C26_BreakevenStop ==
    TickOver =>
        \A i \in DOMAIN active_trades :
            LET trade == active_trades[i]
            IN  trade.current_stop = IF trade.tp1_hit THEN trade.entry_price
                                     ELSE trade.stop_loss

\* C27: the opening range stored for a symbol has its high at the highest
\* high and its low at the lowest low of all six 5-minute bars of the
\* capture window of the day, whenever in the window the extractor ran.
C27_FullWindowRange ==
    last.op = "calculate_opening_range" =>
        LET orb == last.ranges[last.symbol]
        IN  /\ Len(last.bars) = 6
            /\ \A i \in 1..6 : /\ last.bars[i].high <= orb.orh
                                /\ last.bars[i].low >= orb.orl
            /\ \E i \in 1..6 : last.bars[i].high = orb.orh
            /\ \E i \in 1..6 : last.bars[i].low = orb.orl

\* the tick falls inside the capture window of the symbol
InCaptureWindow(symbol) ==
    IF variant = "enhanced"
    THEN enhanced_is_opening_range_period(symbol, Now)
    ELSE legacy_is_opening_range_period(Now, weekday)

\* C28: on each day the extractor runs for every symbol in session for
\* which a tick falls inside its capture window: once the capture loop has
\* passed such a symbol, calculate_opening_range has been called for it on
\* that day.
C28_EverySymbolCaptured ==
    [][ (pc = "ranges" /\ last'.op = "range" /\ InCaptureWindow(last'.symbol))
            => <<last'.symbol, day>> \in range_calls' ]_vars

\* C29: breakouts are acted on only after the opening-range period: no
\* trade is opened for a symbol on a tick that falls inside the capture
\* window of that symbol, in either bot.
C29_NoEntryInWindow ==
    (last.op = "entry" /\ last.executed # None /\ last.executed.ok)
        => ~InCaptureWindow(last.symbol)

\* C30: save_trades_data writes the three documents one after the other
\* with no coupling.  A process killed between two of the dumps of the
\* save that ends close_trade leaves the closed trade out of the persisted
\* open trades and, after one dump, out of the persisted history as well,
\* with the persisted daily stats still the old ones; the restart loads
\* the documents as they are.
C30_SaveNotTransactional ==
    [][ /\ last'.op = "crash" =>
             /\ last'.id \in Ids(saved.active_trades)
             /\ last'.id \notin Ids(saved'.active_trades)
             /\ last'.id \in Ids(saved'.trades_history) <=> last'.dumps = 2
             /\ saved'.daily_stats = saved.daily_stats
        /\ last'.op = "recover" =>
             /\ active_trades' = saved.active_trades
             /\ trades_history' = saved.trades_history
             /\ daily_stats' = saved.daily_stats ]_vars

\* after the restart a trade that was open is neither open nor in the
\* history, and the daily P&L does not contain it
C30_Witness ==
    /\ last.op = "recover"
    /\ last.dumps = 1
    /\ last.id \notin Ids(active_trades)
    /\ last.id \notin Ids(trades_history)
    /\ last.id \in Ids(PriorOpen(us_stocks).trades)

\* C31: in every entry proposal of either bot the targets are ordered by
\* their distance from the entry price: target1 is nearer than target2, and
\* target2 is no farther than target3.
C31_TargetOrder ==
    ( /\ last.op \in {"enhanced_entry_conditions", "check_breakout_conditions"}
      /\ last.result.proposal # None )
    => LET p == last.result.proposal
       IN  /\ Abs(p.target1 - p.entry_price) < Abs(p.target2 - p.entry_price)
           /\ Abs(p.target2 - p.entry_price) <= Abs(p.target3 - p.entry_price)

\* C32: a trade is closed with reason 'Target 3 Hit' only after both partial
\* closes: every closed trade whose exit reason is 'Target 3 Hit' has tp1_hit
\* and tp2_hit set.
C32_Target3AfterTP2 ==
    \A i \in DOMAIN trades_history :
        trades_history[i].exit_reason = "Target 3 Hit"
            => trades_history[i].tp1_hit /\ trades_history[i].tp2_hit

\* C33: every open trade has a position size of at least 1, also after the
\* partial closes at TP1 and TP2.
C33_OpenSizePositive ==
    \A i \in DOMAIN active_trades : active_trades[i].position_size >= 1

(***************************************************************************)
(* Sixth specification: the bot has been running since the day before.     *)
(* It captured the range of its first symbol then and made no trade.  It   *)
(* is now at some time of the next day; when the capture window of the     *)
(* day is over, the call made in it got no bars.                           *)
(***************************************************************************)
YesterdayRanges(v) ==
    PriorSymbol(v) :> (PriorRanges(v)[PriorSymbol(v)]
                           @@ [timestamp |-> <<0, 0>>])

\* the classes of the second calendar day up to midnight
StaleSlots(v) == IF v = "enhanced" THEN 1 .. 9 ELSE 1 .. 6

\* the class of the capture window of the first symbol
FirstCaptureSlot == 2

InitStale ==
    /\ variant \in {"enhanced", "legacy"}
    /\ slot \in StaleSlots(variant)
    /\ weekday = 1
    /\ day = 1
    /\ clock = 0
    /\ pc = "tick"
    /\ todo = << >>
    /\ active_stocks = << >>
    /\ last_opening_range_calc = (IF slot > FirstCaptureSlot THEN 1 ELSE 0)
    /\ opening_ranges = YesterdayRanges(variant)
    /\ active_trades = << >>
    /\ trades_history = << >>
    /\ daily_stats = FreshStats(variant)
    /\ saved = Documents(active_trades, trades_history, daily_stats)
    /\ range_calls = {<<PriorSymbol(variant), d>> :
                         d \in (IF slot > FirstCaptureSlot THEN {0, 1} ELSE {0})}
    /\ last = [op |-> "idle"]

SpecStale == InitStale /\ [][Next]_vars

\* the calendar day on which the session of the symbol began: the US
\* session of the enhanced bot runs past midnight
SessionDay(symbol) ==
    IF variant = "enhanced" /\ symbol \in SeqToSet(us_stocks) /\ Now.hour < 2
    THEN day - 1 ELSE day

\* C34: a trade is opened for a symbol only against an opening range that
\* was captured for that symbol on the current trading day; a range left
\* from an earlier day is never used.
C34_RangeOfToday ==
    (last.op = "entry" /\ last.executed # None /\ last.executed.ok)
        => /\ last.symbol \in DOMAIN opening_ranges
           /\ opening_ranges[last.symbol].timestamp[1] = SessionDay(last.symbol)

\* C35: no trade is accepted on a tick on which the forced end-of-session
\* sweep runs: a trade is never opened and force-closed within one tick.
C35_NoEntryOnSweepTick ==
    (last.op = "entry" /\ last.executed # None /\ last.executed.ok)
        => ~SweepTime(variant, Now)

DayCycle == 2

PriorLimit(v) ==
    LET p == PriorRun(v, max_trades_per_day(v) - 1)
        ex == execute_trade(v, PriorSymbol(v), PriorProposal(v), p.stats, -1)
    IN  [trades |-> <<ex.trade>>,
         history |-> p.history,
         stats |-> [p.stats EXCEPT !.trades_today = @ + 1]]

InitLive ==
    /\ variant \in {"enhanced", "legacy"}
    /\ slot = 1
    /\ weekday \in InitWeekdays
    /\ day = 0
    /\ clock = 0
    /\ pc = "tick"
    /\ todo = << >>
    /\ active_stocks = << >>
    /\ last_opening_range_calc = NoDate
    /\ opening_ranges = << >>
    /\ active_trades = PriorLimit(variant).trades
    /\ trades_history = PriorLimit(variant).history
    /\ daily_stats = PriorLimit(variant).stats
    /\ saved = Documents(active_trades, trades_history, daily_stats)
    /\ range_calls = {}
    /\ last = [op |-> "init"]

\* time.sleep: as Advance, without the count of ticks
LiveAdvance ==
    /\ UNCHANGED clock
    /\ \E s2 \in {slot, NextSlot(variant, slot)} \ (InstantSlots(variant) \cap {slot}) :
         /\ slot' = s2
         /\ IF DateChanges(variant, slot, s2)
            THEN /\ day' = (day + 1) % DayCycle
                 /\ weekday' = IF variant = "legacy"
                               THEN (weekday + 1) % 7 ELSE weekday
            ELSE UNCHANGED <<day, weekday>>

\* no session: sleep 300 and continue
LiveIdle ==
    /\ pc = "tick"
    /\ active_trades # << >>
    /\ SessionStocks = << >>
    /\ LiveAdvance
    /\ active_stocks' = SessionStocks
    /\ last' = [op |-> "idle"]
    /\ UNCHANGED <<variant, pc, todo, last_opening_range_calc>>
    /\ Untouched

\* time.sleep(60) at the end of the loop body
LiveSleep ==
    /\ pc = "sweep"
    /\ active_trades # << >>
    /\ todo = << >>
    /\ LiveAdvance
    /\ pc' = "tick"
    /\ last' = [op |-> "sleep"]
    /\ UNCHANGED <<variant, todo, active_stocks, last_opening_range_calc>>
    /\ Untouched

NextLive ==
    \/ LiveIdle
    \/ TickStart
    \/ OpeningRangeStep
    \/ RangesDone
    \/ MonitorStep
    \/ MonitorDone
    \/ EntryStep
    \/ EntriesDone
    \/ SweepStep
    \/ LiveSleep

\* the wall clock leaves the current time class
TimeMoves == (LiveIdle \/ LiveSleep) /\ slot' # slot

\* the price fetch of the sweep succeeds
SweepFetched == SweepStep /\ last'.closed

\* the loop keeps ticking, time passes, and the price fetch of the sweep
\* does not fail for ever
SpecLive ==
    /\ InitLive
    /\ [][NextLive]_vars
    /\ WF_vars(NextLive)
    /\ SF_vars(TimeMoves)
    /\ SF_vars(SweepFetched)

LiveIds == {<<PriorSymbol(v), -1>> : v \in {"enhanced", "legacy"}}

\* C37: every accepted trade is eventually closed and moved to the history,
\* provided the loop keeps ticking and the price fetch for its symbol
\* eventually succeeds: no trade stays open for ever.
C37_EventuallyClosed ==
    \A id \in LiveIds :
        (id \in Ids(active_trades))
            ~> (id \in Ids(trades_history) /\ id \notin Ids(active_trades))

\* the trade restored open has been closed by the sweep
C37_Witness ==
    /\ last.op = "sweep"
    /\ last.closed
    /\ last.id \in LiveIds
    /\ last.id \in Ids(trades_history)
    /\ active_trades = << >>

\* an entry step in which execute_trade accepted the trade
Accepted(l) == l.op = "entry" /\ l.executed # None /\ l.executed.ok

\* C38: trades_today never exceeds the daily limit (5 in the enhanced bot,
\* 3 in the legacy bot); it grows by exactly 1 in a step that accepts a
\* trade and is left as it is by every other step, date changes included:
\* it is never reset.
C38_TradesToday ==
    [][ /\ daily_stats'.trades_today
              <= (IF variant = "enhanced" THEN enhanced_max_trades_per_day
                  ELSE legacy_max_trades_per_day)
        /\ daily_stats'.trades_today
              = daily_stats.trades_today + (IF Accepted(last') THEN 1 ELSE 0)
      ]_vars

\* the trade that reaches the limit has been accepted
C38_Witness ==
    /\ Accepted(last)
    /\ daily_stats.trades_today = max_trades_per_day(variant)

\* the ids of the open-trade map and of the history together
KnownIds == Ids(active_trades) \cup Ids(trades_history)

\* C39: the ids of all trades ever accepted are the disjoint union of the
\* ids in the open-trade map and the ids in the history: a step that
\* accepts a trade adds one id that was in neither, every other step keeps
\* the union as it is, no id is in both and none is held twice.
C39_IdPartition ==
    [][ /\ KnownIds' = KnownIds \cup (IF Accepted(last')
                                      THEN {<<last'.symbol, clock>>} ELSE {})
        /\ Accepted(last') => /\ <<last'.symbol, clock>> \notin KnownIds
                              /\ <<last'.symbol, clock>> \in Ids(active_trades')
        /\ Ids(active_trades') \cap Ids(trades_history') = {}
        /\ Cardinality(Ids(active_trades')) = Len(active_trades')
        /\ Cardinality(Ids(trades_history')) = Len(trades_history')
      ]_vars

\* a trade has been accepted after another trade of this run was closed
C39_Witness ==
    /\ Accepted(last)
    /\ active_trades # << >>
    /\ \E i \in DOMAIN trades_history : trades_history[i].id[2] >= 0

\* a step of the monitoring loop that made a partial close
PartialClose(l) == l.op = "monitor" /\ l.outcome \in {"tp1", "tp2"}

\* C40: daily_pnl is the sum of the pnl fields of the history; the partial
\* closes at TP1 and TP2 change neither daily_pnl nor the history.
C40_DailyPnl ==
    [][ /\ daily_stats'.daily_pnl = SumField(trades_history', "pnl")
        /\ PartialClose(last') =>
              /\ daily_stats'.daily_pnl = daily_stats.daily_pnl
              /\ trades_history' = trades_history
      ]_vars

\* a trade reduced at TP1 has been closed with a profit that is in daily_pnl
C40_Witness ==
    /\ daily_stats.daily_pnl # 0
    /\ \E i \in DOMAIN trades_history :
         /\ trades_history[i].tp1_hit
         /\ trades_history[i].pnl > 0

====
